---- MODULE Spec2Model ----
(***************************************************************************)
(* Event ledger and aggregation-consistency engine of the climate action   *)
(* tracker: user_actions (event store), user_stats (per-user aggregate),   *)
(* global_emissions (singleton aggregate), emissions_corrections (audit).  *)
(*                                                                         *)
(* All quantities are exact decimals NUMERIC(18,6); the model holds them   *)
(* as integers counted in millionths of a pound (1 lb = 1000000).          *)
(*                                                                         *)
(* The database tables below hold COMMITTED rows only.  A transaction in   *)
(* progress keeps its writes in txn[p] until COMMIT (PostgreSQL READ       *)
(* COMMITTED: every statement reads the rows committed when it starts,     *)
(* and a row written or locked FOR UPDATE stays locked until the           *)
(* transaction ends).                                                      *)
(***************************************************************************)
EXTENDS Integers, Sequences, FiniteSets, TLC

(***************************************************************************)
(* Bounds of the model.                                                    *)
(***************************************************************************)
NumKeys == 2       \* distinct idempotency keys (action_id) callers use
MaxCalls == 3      \* service calls made in one behaviour

Procs == {1, 2}    \* client sessions that call the service concurrently
Keys == 1..NumKeys
Users == {1, 2}

\* emissions_lbs values a caller submits: 0.004 lbs and 22.5 lbs.
Quantities == {4000, 22500000}

VARIABLES
    user_actions,           \* committed rows: action_id -> [user_id, lbs, verified, verified_at]
    user_stats,             \* committed rows: user_id -> [total_emissions_lbs, action_count]
    global_emissions,       \* the single row id = 1: [total_lbs_saved, total_actions]
    emission_events,        \* committed rows: action_id -> [user_total_lbs, global_total_lbs]
    emissions_corrections,  \* audit trail, oldest first
    lock_global,            \* holder of the row lock on global_emissions id = 1, 0 when free
    pc,                     \* position of each session in logEmission / log_emission_atomic
    req,                    \* the request each session is serving
    txn,                    \* uncommitted writes of each session's transaction
    res,                    \* the response each session returned last (<<>> before any)
    calls,                  \* number of service calls made so far
    sync,                   \* the consistency check in progress and its last result
    globalState,            \* globalSync.ts in-memory totals: [totalLbsSaved, actionCount]
    listeners,              \* globalSync.ts listeners in insertion order, with what each received
    page,                   \* the subscribed page: channel, loads in flight, totals shown
    migration,              \* the last migration applied to the trigger-maintained tables
    verification,           \* the verifyUserAction call in progress: promise, timer, result
    hook                    \* useVerification: lastRunId, isVerifying, result, error, runs

tables == <<user_actions, user_stats, global_emissions, emission_events, emissions_corrections>>
sessions == <<pc, req, txn, res>>
vars == <<user_actions, user_stats, global_emissions, emission_events, emissions_corrections,
          lock_global, pc, req, txn, res, calls, sync, globalState, listeners, page, migration,
          verification, hook>>
clients == <<globalState, listeners, page>>
verifier == <<verification, hook>>
schema == <<clients, migration, verifier>>

----------------------------------------------------------------------------
(***************************************************************************)
(* Helpers over the tables.                                                *)
(***************************************************************************)
RECURSIVE SumStats(_, _)
SumStats(stats, S) ==
    IF S = {} THEN 0
    ELSE LET u == CHOOSE x \in S : TRUE
         IN stats[u].total_emissions_lbs + SumStats(stats, S \ {u})

\* SELECT COALESCE(SUM(total_emissions_lbs), 0) FROM user_stats
UserStatsSum == SumStats(user_stats, DOMAIN user_stats)

RECURSIVE SumLbs(_, _)
SumLbs(actions, S) ==
    IF S = {} THEN 0
    ELSE LET k == CHOOSE x \in S : TRUE
         IN actions[k].lbs + SumLbs(actions, S \ {k})

\* the verified actions, and the actions of one user
VerifiedActions == {k \in DOMAIN user_actions : user_actions[k].verified}
ActionsOf(u) == {k \in DOMAIN user_actions : user_actions[k].user_id = u}

\* SELECT action_id FROM user_actions WHERE action_id = k
ExistingAction(k) == k \in DOMAIN user_actions

NoTxn == [w_action |-> <<>>, w_stats |-> <<>>, w_global |-> <<>>, w_event |-> <<>>]
NoReq == [action_id |-> 0, user_id |-> 0, emissions_lbs |-> 0]
\* 20251117175551_20251117_fix_function_volatility.sql
LastMigration == 3
NoGlobalState == [totalLbsSaved |-> 0, actionCount |-> 0]
NoPage == [globalTotal |-> <<>>, newActionCount |-> 0, timers |-> 0, loads |-> <<>>]
NoVerification ==
    [pc |-> "idle", action_id |-> 0, quantity |-> 0, confidenceThreshold |-> 0,
     fallbackMode |-> "", promise |-> "none", timer |-> "none", settled |-> FALSE,
     resolved |-> <<>>, result |-> <<>>]
NoHook == [lastRunId |-> 0, isVerifying |-> FALSE, result |-> <<>>, error |-> <<>>, runs |-> {}]
NoSync == [pc |-> "idle", mode |-> "none", performed_by |-> "", auto_correct |-> FALSE,
           stats_sum |-> 0, global_val |-> 0, read_failed |-> FALSE, result |-> <<>>]

\* faulty variant: the row lock is never waited for (no FOR UPDATE, no row lock on UPDATE)
RowLockIgnored(p) == TRUE

\* FOR UPDATE / UPDATE on global_emissions id = 1: the row lock is free or already ours
RowLockFree(p) == lock_global \in {0, p}

\* the response object logEmission builds from the row the database function returned
Response(k, ok, dup, userTotal, globalTotal) ==
    [action_id |-> k, success |-> ok, is_duplicate |-> dup,
     user_total_lbs |-> userTotal, global_total_lbs |-> globalTotal]

\* catch branch of logEmission: success false, totals '0'
ErrorResponse(k) == Response(k, FALSE, FALSE, 0, 0)

----------------------------------------------------------------------------
Init ==
    /\ user_actions = <<>>
    /\ user_stats = <<>>
    /\ global_emissions = [total_lbs_saved |-> 0, total_actions |-> 0]
    /\ emission_events = <<>>
    /\ emissions_corrections = <<>>
    /\ lock_global = 0
    /\ pc = [p \in Procs |-> "idle"]
    /\ req = [p \in Procs |-> NoReq]
    /\ txn = [p \in Procs |-> NoTxn]
    /\ res = [p \in Procs |-> <<>>]
    /\ calls = 0
    /\ sync = NoSync
    /\ globalState = NoGlobalState
    /\ listeners = <<>>
    /\ page = NoPage
    /\ verification = NoVerification
    /\ hook = NoHook
    /\ migration = LastMigration

----------------------------------------------------------------------------
(***************************************************************************)
(* logEmission -> log_emission_atomic, one action per statement.           *)
(***************************************************************************)

\* logEmission validates, then calls the database function: BEGIN TRANSACTION
LogEmission(p, k, u, q) ==
    /\ pc[p] = "idle"
    /\ calls < MaxCalls
    /\ calls' = calls + 1
    /\ q >= 0
    /\ pc' = [pc EXCEPT ![p] = "check"]
    /\ req' = [req EXCEPT ![p] = [action_id |-> k, user_id |-> u, emissions_lbs |-> q]]
    /\ txn' = [txn EXCEPT ![p] = NoTxn]
    /\ res' = [res EXCEPT ![p] = <<>>]
    /\ UNCHANGED <<tables, lock_global, sync, schema>>

\* RETURN existing_result(user_total, global_total, is_duplicate = true): the
\* transaction ends without a write.  A user without a user_stats row gives a NULL
\* user_total, on which logEmission's toString() throws (catch branch).
ReturnExisting(p) ==
    /\ pc' = [pc EXCEPT ![p] = "idle"]
    /\ res' = [res EXCEPT ![p] =
                 IF req[p].user_id \in DOMAIN user_stats
                 THEN <<Response(req[p].action_id, TRUE, TRUE,
                                 user_stats[req[p].user_id].total_emissions_lbs,
                                 global_emissions.total_lbs_saved)>>
                 ELSE <<ErrorResponse(req[p].action_id)>>]
    /\ txn' = [txn EXCEPT ![p] = NoTxn]
    /\ lock_global' = IF lock_global = p THEN 0 ELSE lock_global
    /\ req' = [req EXCEPT ![p] = NoReq]
    /\ UNCHANGED <<tables, calls, sync, schema>>

\* faulty variant: the idempotency check never finds the committed row
CheckExistingSkipped(p) ==
    /\ pc[p] = "check"
    /\ pc' = [pc EXCEPT ![p] = "lock"]
    /\ UNCHANGED <<tables, lock_global, req, txn, res, calls, sync, schema>>

\* existing_action = SELECT ... WHERE action_id = action_id FOR UPDATE
CheckExisting(p) ==
    /\ pc[p] = "check"
    /\ IF ExistingAction(req[p].action_id)
       THEN ReturnExisting(p)
       ELSE /\ pc' = [pc EXCEPT ![p] = "lock"]
            /\ UNCHANGED <<tables, lock_global, req, txn, res, calls, sync, schema>>

\* global_row = SELECT * FROM global_emissions WHERE id = 1 FOR UPDATE
LockGlobal(p) ==
    /\ pc[p] = "lock"
    /\ RowLockFree(p)
    /\ lock_global' = p
    /\ pc' = [pc EXCEPT ![p] = "insert"]
    /\ UNCHANGED <<tables, req, txn, res, calls, sync, schema>>

\* faulty variant: a plain INSERT that does not stop on a conflicting action_id
InsertActionNoConflict(p) ==
    /\ pc[p] = "insert"
    /\ txn' = [txn EXCEPT ![p].w_action =
                 <<[user_id |-> req[p].user_id, lbs |-> req[p].emissions_lbs,
                    verified |-> TRUE, verified_at |-> TRUE]>>]
    /\ pc' = [pc EXCEPT ![p] = "stats"]
    /\ UNCHANGED <<tables, lock_global, req, res, calls, sync, schema>>

\* INSERT INTO user_actions ... VALUES (action_id, user_id, emissions_lbs, TRUE)
\* ON CONFLICT (action_id) DO NOTHING; IF action_not_inserted: RETURN existing_result
InsertAction(p) ==
    /\ pc[p] = "insert"
    /\ IF ExistingAction(req[p].action_id)
       THEN ReturnExisting(p)
       ELSE /\ txn' = [txn EXCEPT ![p].w_action =
                         <<[user_id |-> req[p].user_id, lbs |-> req[p].emissions_lbs,
                            verified |-> TRUE, verified_at |-> TRUE]>>]
            /\ pc' = [pc EXCEPT ![p] = "stats"]
            /\ UNCHANGED <<tables, lock_global, req, res, calls, sync, schema>>

\* faulty variant: the user_stats upsert runs outside the transaction (visible at once)
UpsertUserStatsAutocommit(p) ==
    /\ pc[p] = "stats"
    /\ LET u == req[p].user_id
           old == IF u \in DOMAIN user_stats
                  THEN user_stats[u]
                  ELSE [total_emissions_lbs |-> 0, action_count |-> 0]
           new == [total_emissions_lbs |-> old.total_emissions_lbs + req[p].emissions_lbs,
                   action_count |-> old.action_count + 1]
       IN /\ txn' = [txn EXCEPT ![p].w_stats = <<new>>]
          /\ user_stats' = (u :> new) @@ user_stats
    /\ pc' = [pc EXCEPT ![p] = "global"]
    /\ UNCHANGED <<user_actions, global_emissions, emission_events, emissions_corrections,
                   lock_global, req, res, calls, sync, schema>>

\* INSERT INTO user_stats ... ON CONFLICT (user_id) DO UPDATE SET total_emissions_lbs =
\* user_stats.total_emissions_lbs + emissions_lbs, action_count = action_count + 1
UpsertUserStats(p) ==
    /\ pc[p] = "stats"
    /\ LET u == req[p].user_id
           old == IF u \in DOMAIN user_stats
                  THEN user_stats[u]
                  ELSE [total_emissions_lbs |-> 0, action_count |-> 0]
       IN txn' = [txn EXCEPT ![p].w_stats =
                    <<[total_emissions_lbs |-> old.total_emissions_lbs + req[p].emissions_lbs,
                       action_count |-> old.action_count + 1]>>]
    /\ pc' = [pc EXCEPT ![p] = "global"]
    /\ UNCHANGED <<tables, lock_global, req, res, calls, sync, schema>>

\* UPDATE global_emissions SET total_lbs_saved = total_lbs_saved + emissions_lbs,
\* total_actions = total_actions + 1 WHERE id = 1 RETURNING total_lbs_saved
UpdateGlobal(p) ==
    /\ pc[p] = "global"
    /\ RowLockFree(p)
    /\ lock_global' = p
    /\ txn' = [txn EXCEPT ![p].w_global =
                 <<[total_lbs_saved |-> global_emissions.total_lbs_saved + req[p].emissions_lbs,
                    total_actions |-> global_emissions.total_actions + 1]>>]
    /\ pc' = [pc EXCEPT ![p] = "event"]
    /\ UNCHANGED <<tables, req, res, calls, sync, schema>>

\* INSERT INTO emission_events (action_id, user_id, emissions_lbs, user_total_lbs, global_total_lbs)
InsertEvent(p) ==
    /\ pc[p] = "event"
    /\ txn' = [txn EXCEPT ![p].w_event =
                 <<[user_total_lbs |-> txn[p].w_stats[1].total_emissions_lbs,
                    global_total_lbs |-> txn[p].w_global[1].total_lbs_saved]>>]
    /\ pc' = [pc EXCEPT ![p] = "commit"]
    /\ UNCHANGED <<tables, lock_global, req, res, calls, sync, schema>>

\* COMMIT TRANSACTION: every write of the transaction becomes visible, locks are released
Commit(p) ==
    /\ pc[p] = "commit"
    /\ user_actions' = (req[p].action_id :> txn[p].w_action[1]) @@ user_actions
    /\ user_stats' = (req[p].user_id :> txn[p].w_stats[1]) @@ user_stats
    /\ global_emissions' = txn[p].w_global[1]
    /\ emission_events' = (req[p].action_id :> txn[p].w_event[1]) @@ emission_events
    /\ lock_global' = IF lock_global = p THEN 0 ELSE lock_global
    /\ pc' = [pc EXCEPT ![p] = "notify"]
    /\ UNCHANGED <<emissions_corrections, req, txn, res, calls, sync, schema>>

\* NOTIFY 'emissions.updated'; RETURN success_result(user_total, global_total, false)
NotifyAndReturn(p) ==
    /\ pc[p] = "notify"
    /\ res' = [res EXCEPT ![p] =
                 <<Response(req[p].action_id, TRUE, FALSE, txn[p].w_stats[1].total_emissions_lbs,
                            txn[p].w_global[1].total_lbs_saved)>>]
    /\ txn' = [txn EXCEPT ![p] = NoTxn]
    /\ pc' = [pc EXCEPT ![p] = "idle"]
    /\ req' = [req EXCEPT ![p] = NoReq]
    /\ UNCHANGED <<tables, lock_global, calls, sync, schema>>

\* faulty variant: the failed transaction leaves its user_actions row behind
RollbackKeepsAction(p) ==
    /\ pc[p] \in {"check", "lock", "insert", "stats", "global", "event", "commit"}
    /\ user_actions' = IF txn[p].w_action # <<>>
                       THEN (req[p].action_id :> txn[p].w_action[1]) @@ user_actions
                       ELSE user_actions
    /\ txn' = [txn EXCEPT ![p] = NoTxn]
    /\ lock_global' = IF lock_global = p THEN 0 ELSE lock_global
    /\ res' = [res EXCEPT ![p] = <<ErrorResponse(req[p].action_id)>>]
    /\ pc' = [pc EXCEPT ![p] = "idle"]
    /\ req' = [req EXCEPT ![p] = NoReq]
    /\ UNCHANGED <<user_stats, global_emissions, emission_events, emissions_corrections,
                   calls, sync, schema>>

\* a statement fails (conflict, lock timeout, lost connection): the transaction rolls
\* back, the rpc returns an error and logEmission answers success = false
Rollback(p) ==
    /\ pc[p] \in {"check", "lock", "insert", "stats", "global", "event", "commit"}
    /\ txn' = [txn EXCEPT ![p] = NoTxn]
    /\ lock_global' = IF lock_global = p THEN 0 ELSE lock_global
    /\ res' = [res EXCEPT ![p] = <<ErrorResponse(req[p].action_id)>>]
    /\ pc' = [pc EXCEPT ![p] = "idle"]
    /\ req' = [req EXCEPT ![p] = NoReq]
    /\ UNCHANGED <<tables, calls, sync, schema>>

LogEmissionStep(p) ==
    \/ \E k \in Keys, u \in Users, q \in Quantities : LogEmission(p, k, u, q)
    \/ CheckExisting(p)
    \/ LockGlobal(p)
    \/ InsertAction(p)
    \/ UpsertUserStats(p)
    \/ UpdateGlobal(p)
    \/ InsertEvent(p)
    \/ Commit(p)
    \/ NotifyAndReturn(p)
    \/ Rollback(p)

Next == \E p \in Procs : LogEmissionStep(p)

Spec == Init /\ [][Next]_vars

----------------------------------------------------------------------------
(***************************************************************************)
(* Consistency checks: hourly_sync_check -> sync_global_emissions_from_    *)
(* user_stats in the database, performSyncCheckManual in the client.       *)
(* Each statement (each request of the client) reads the rows committed    *)
(* when it runs.                                                           *)
(***************************************************************************)

\* one hundredth of a lb in millionths: the 0.01 of the manual comparison
Cent == 10000

Abs(x) == IF x < 0 THEN 0 - x ELSE x

\* ROUND(x, 2) and parseFloat(x.toFixed(2)) for x >= 0
Round2(x) == ((x + (Cent \div 2)) \div Cent) * Cent

\* SELECT * INTO check_result FROM sync_global_emissions_from_user_stats()
HourlySyncCheck ==
    /\ sync.pc = "idle"
    /\ calls < MaxCalls
    /\ calls' = calls + 1
    /\ sync' = [NoSync EXCEPT !.pc = "sum", !.mode = "hourly"]
    /\ UNCHANGED <<tables, lock_global, sessions, schema>>

\* performSyncCheckManual is entered
PerformSyncCheckManual ==
    /\ sync.pc = "idle"
    /\ calls < MaxCalls
    /\ calls' = calls + 1
    /\ sync' = [NoSync EXCEPT !.pc = "sum", !.mode = "manual"]
    /\ UNCHANGED <<tables, lock_global, sessions, schema>>

\* SELECT COALESCE(SUM(total_emissions_lbs), 0) INTO stats_sum FROM user_stats
\* manual: getGlobalTotalFromUserStats() returns the sum with two decimals
ReadStatsSum ==
    /\ sync.pc = "sum" /\ sync.mode \in {"hourly", "manual"}
    /\ sync' = [sync EXCEPT !.pc = "global",
                            !.stats_sum = IF sync.mode = "manual"
                                          THEN Round2(UserStatsSum) ELSE UserStatsSum]
    /\ UNCHANGED <<tables, lock_global, sessions, calls, schema>>

\* SELECT total_lbs_saved INTO global_val FROM global_emissions WHERE id = 1
\* manual: getGlobalTotalEmissions() returns the total with two decimals
ReadGlobal ==
    /\ sync.pc = "global" /\ sync.mode \in {"hourly", "manual"}
    /\ sync' = [sync EXCEPT !.pc = "fix",
                            !.global_val = IF sync.mode = "manual"
                                           THEN Round2(global_emissions.total_lbs_saved)
                                           ELSE global_emissions.total_lbs_saved]
    /\ UNCHANGED <<tables, lock_global, sessions, calls, schema>>

\* faulty variant: the totals are never found in sync
NeverSynced == FALSE

\* is_synced := (stats_sum = global_val); manual: |userStatsSum - globalTotal| < 0.01
IsSynced ==
    IF sync.mode = "manual"
    THEN Abs(sync.stats_sum - sync.global_val) < Cent
    ELSE sync.stats_sum = sync.global_val

\* IF NOT is_synced THEN UPDATE global_emissions SET total_lbs_saved = stats_sum; the
\* UPDATE waits for the row lock; RETURN (is_synced, stats_sum, global_val, NOT is_synced).
\* hourly_sync_check rounds what it reports and raises a warning; the audit INSERT is
\* commented out, and the manual check only logs to the console.
FixGlobal ==
    /\ sync.pc = "fix" /\ sync.mode \in {"hourly", "manual"}
    /\ IsSynced \/ lock_global = 0
    /\ global_emissions' = IF IsSynced
                           THEN global_emissions
                           ELSE [global_emissions EXCEPT !.total_lbs_saved = sync.stats_sum]
    /\ sync' = [sync EXCEPT
                  !.pc = "idle", !.stats_sum = 0, !.global_val = 0,
                  !.result = <<[was_in_sync |-> IsSynced,
                                user_stats_sum |-> Round2(sync.stats_sum),
                                global_total |-> Round2(sync.global_val),
                                discrepancy |-> Round2(Abs(sync.stats_sum - sync.global_val)),
                                fixed |-> ~IsSynced]>>]
    /\ UNCHANGED <<user_actions, user_stats, emission_events, emissions_corrections,
                   lock_global, sessions, calls, schema>>

SyncStep ==
    \/ HourlySyncCheck
    \/ PerformSyncCheckManual
    \/ ReadStatsSum
    \/ ReadGlobal
    \/ FixGlobal

\* one submitting session and the consistency check running side by side
NextSync ==
    \/ LogEmissionStep(1)
    \/ SyncStep

SpecSync == Init /\ [][NextSync]_vars

----------------------------------------------------------------------------
(***************************************************************************)
(* Verification path: saveUserAction inserts the action with verified =    *)
(* false, verifyAndSyncAction writes the verification outcome, and the     *)
(* trigger global_sync_trigger adds the action to the totals.  Each call   *)
(* is one statement, the trigger runs inside it.                           *)
(***************************************************************************)

FinalStatuses == {"verified", "needs_review"}

\* INSERT INTO user_stats ... ON CONFLICT (user_id) DO UPDATE SET total_emissions_lbs =
\* user_stats.total_emissions_lbs + lbs, action_count = user_stats.action_count + 1
UpsertStats(stats, u, lbs) ==
    LET old == IF u \in DOMAIN stats THEN stats[u]
               ELSE [total_emissions_lbs |-> 0, action_count |-> 0]
    IN (u :> [total_emissions_lbs |-> old.total_emissions_lbs + lbs,
              action_count |-> old.action_count + 1]) @@ stats

\* UPDATE global_emissions SET total_lbs_saved = total_lbs_saved + lbs,
\* total_actions = total_actions + 1 WHERE id = 1
AddToGlobal(g, lbs) ==
    [total_lbs_saved |-> g.total_lbs_saved + lbs, total_actions |-> g.total_actions + 1]

\* WHEN (NEW.verified = TRUE AND (OLD.verified IS NULL OR OLD.verified = FALSE))
GlobalSyncTriggerFires(old, new) == new.verified /\ ~old.verified

\* saveUserAction: insert with verified = false; the database generates the action_id
SaveUserAction(k, u, q) ==
    /\ ~ExistingAction(k)
    /\ user_actions' = (k :> [user_id |-> u, lbs |-> q, verified |-> FALSE,
                              verified_at |-> FALSE]) @@ user_actions
    /\ UNCHANGED <<user_stats, global_emissions, emission_events, emissions_corrections,
                   lock_global, sessions, calls, sync, schema>>

\* verifyAndSyncAction: a result other than 'verified' writes verified = false; 'verified'
\* writes verified = true and verified_at, and global_sync_trigger_function runs
VerifyAndSyncAction(k, finalStatus) ==
    /\ ExistingAction(k)
    /\ calls < MaxCalls
    /\ calls' = calls + 1
    /\ LET old == user_actions[k]
           new == IF finalStatus # "verified"
                  THEN [old EXCEPT !.verified = FALSE]
                  ELSE [old EXCEPT !.verified = TRUE, !.verified_at = TRUE]
       IN /\ user_actions' = [user_actions EXCEPT ![k] = new]
          /\ IF GlobalSyncTriggerFires(old, new)
             THEN /\ user_stats' = UpsertStats(user_stats, new.user_id, new.lbs)
                  /\ global_emissions' = AddToGlobal(global_emissions, new.lbs)
             ELSE UNCHANGED <<user_stats, global_emissions>>
    /\ UNCHANGED <<emission_events, emissions_corrections, lock_global, sessions, sync, schema>>

NextVerify ==
    \/ \E k \in Keys, u \in Users, q \in Quantities : SaveUserAction(k, u, q)
    \/ \E k \in Keys, st \in FinalStatuses : VerifyAndSyncAction(k, st)

SpecVerify == Init /\ [][NextVerify]_vars

----------------------------------------------------------------------------
(***************************************************************************)
(* Raw logging path: handleLogAction inserts the parsed action straight    *)
(* into user_actions; trigger_update_emission_totals runs AFTER INSERT.    *)
(***************************************************************************)

\* update_emission_totals: v_lbs is custom_emissions_saved when it is > 0 (the raw
\* insert carries no action_template_id), else 0; totals change only when v_lbs > 0
EmissionLbs(custom_emissions_saved) ==
    IF custom_emissions_saved > 0 THEN custom_emissions_saved ELSE 0

\* handleLogAction: insert {user_id, custom_title, custom_emissions_saved, notes}; the
\* column is NUMERIC(12,2); no verification flag is written
HandleLogAction(k, u, co2SavedLbs) ==
    /\ ~ExistingAction(k)
    /\ LET v_lbs == EmissionLbs(Round2(co2SavedLbs))
       IN /\ user_actions' = (k :> [user_id |-> u, lbs |-> Round2(co2SavedLbs),
                                    verified |-> FALSE, verified_at |-> FALSE]) @@ user_actions
          /\ IF v_lbs > 0
             THEN /\ user_stats' = UpsertStats(user_stats, u, v_lbs)
                  /\ global_emissions' = AddToGlobal(global_emissions, v_lbs)
             ELSE UNCHANGED <<user_stats, global_emissions>>
    /\ UNCHANGED <<emission_events, emissions_corrections, lock_global, sessions, calls, sync, schema>>

\* every way an action gets recorded without the atomic ingestion function
NextRecord ==
    \/ \E k \in Keys, u \in Users, q \in Quantities : SaveUserAction(k, u, q)
    \/ \E k \in Keys, st \in FinalStatuses : VerifyAndSyncAction(k, st)
    \/ \E k \in Keys, u \in Users, q \in Quantities : HandleLogAction(k, u, q)

SpecRecord == Init /\ [][NextRecord]_vars

----------------------------------------------------------------------------
(***************************************************************************)
(* Reconciliation with corrections: reconcileEmissionsWithCorrections ->   *)
(* reconcile_emissions_with_corrections, following the documented          *)
(* reconciliation process, and the documented test step that corrupts the  *)
(* global row by hand.                                                     *)
(***************************************************************************)

\* values written into global_emissions.total_lbs_saved by hand: 0, 0.004, 30 lbs
CorruptValues == {0, 4000, 30000000}
Performers == {"system", "admin"}

\* "Corrupt global_emissions manually"
CorruptGlobal(v) ==
    /\ calls < MaxCalls
    /\ calls' = calls + 1
    /\ lock_global = 0
    /\ v # global_emissions.total_lbs_saved
    /\ global_emissions' = [global_emissions EXCEPT !.total_lbs_saved = v]
    /\ UNCHANGED <<user_actions, user_stats, emission_events, emissions_corrections,
                   lock_global, sessions, sync, schema>>

\* reconcileEmissionsWithCorrections(performedBy, autoCorrect) calls the rpc
ReconcileEmissionsWithCorrections(performedBy, autoCorrect) ==
    /\ sync.pc = "idle"
    /\ calls < MaxCalls
    /\ calls' = calls + 1
    /\ sync' = [NoSync EXCEPT !.pc = "sum", !.mode = "corrections",
                              !.performed_by = performedBy, !.auto_correct = autoCorrect]
    /\ UNCHANGED <<tables, lock_global, sessions, schema>>

\* 1. SELECT SUM(lbs) AS sum_user_totals FROM user_actions WHERE verified = TRUE
QuerySourceOfTruth ==
    /\ sync.pc = "sum" /\ sync.mode = "corrections"
    /\ sync' = [sync EXCEPT !.pc = "global",
                            !.stats_sum = SumLbs(user_actions, VerifiedActions)]
    /\ UNCHANGED <<tables, lock_global, sessions, calls, schema>>

\* 2. SELECT total_lbs_saved FROM global_emissions WHERE id = 1
CompareWithGlobalTotal ==
    /\ sync.pc = "global" /\ sync.mode = "corrections"
    /\ sync' = [sync EXCEPT !.pc = "fix", !.global_val = global_emissions.total_lbs_saved]
    /\ UNCHANGED <<tables, lock_global, sessions, calls, schema>>

\* faulty variant: the audit row stores the signed difference
CorrectionRowSigned(previous, corrected, performedBy) ==
    [previous_total |-> previous, corrected_total |-> corrected,
     discrepancy |-> corrected - previous,
     reason |-> "Reconciliation auto-correction", performed_by |-> performedBy]

\* the audit row: previous_total, corrected_total, discrepancy = ABS(difference), reason,
\* performed_by
CorrectionRow(previous, corrected, performedBy) ==
    [previous_total |-> previous, corrected_total |-> corrected,
     discrepancy |-> Abs(corrected - previous),
     reason |-> "Reconciliation auto-correction", performed_by |-> performedBy]

\* 3. on mismatch insert the audit row into emissions_corrections and, when auto-correct
\* is on, set global_emissions.total_lbs_saved = sum_user_totals; the wrapper returns
\* in_sync, user_stats_sum, global_total, discrepancy, fixed, correction_id
OnMismatch ==
    /\ sync.pc = "fix" /\ sync.mode = "corrections"
    /\ LET in_sync == sync.stats_sum = sync.global_val
           fixed == ~in_sync /\ sync.auto_correct
       IN /\ fixed => lock_global = 0
          /\ emissions_corrections' =
               IF in_sync THEN emissions_corrections
               ELSE Append(emissions_corrections,
                           CorrectionRow(sync.global_val, sync.stats_sum, sync.performed_by))
          /\ global_emissions' =
               IF fixed THEN [global_emissions EXCEPT !.total_lbs_saved = sync.stats_sum]
               ELSE global_emissions
          /\ sync' = [sync EXCEPT
                        !.pc = "idle", !.stats_sum = 0, !.global_val = 0,
                        !.result = <<[in_sync |-> in_sync,
                                      user_stats_sum |-> sync.stats_sum,
                                      global_total |-> sync.global_val,
                                      discrepancy |-> Abs(sync.stats_sum - sync.global_val),
                                      fixed |-> fixed,
                                      correction_id |-> IF in_sync THEN 0
                                                        ELSE Len(emissions_corrections) + 1]>>]
    /\ UNCHANGED <<user_actions, user_stats, emission_events, lock_global, sessions, calls, schema>>

ReconcileStep ==
    \/ \E by \in Performers, ac \in BOOLEAN : ReconcileEmissionsWithCorrections(by, ac)
    \/ QuerySourceOfTruth
    \/ CompareWithGlobalTotal
    \/ OnMismatch

NextReconcile ==
    \/ LogEmissionStep(1)
    \/ \E v \in CorruptValues : CorruptGlobal(v)
    \/ ReconcileStep

SpecReconcile == Init /\ [][NextReconcile]_vars

----------------------------------------------------------------------------
(***************************************************************************)
(* Bulk backfill: bulkBackfillActions -> bulk_backfill_actions, following  *)
(* the documented SQL of the backfill transaction.  The transaction is     *)
(* taken as one step, at a moment when no submission holds a lock.         *)
(***************************************************************************)

\* the entries a caller puts into a batch (ActionLog), and the batches it sends
BackfillQuantities == {10200000}
\* (an unverified entry is dropped before its content is read, so one stands for all)
BatchEntries ==
    [action_id : Keys, user_id : Users, lbs : BackfillQuantities, verified : {TRUE}]
      \cup [action_id : {1}, user_id : {1}, lbs : BackfillQuantities, verified : {FALSE}]
Batches == {<<>>} \cup {<<a>> : a \in BatchEntries}
                  \cup {<<a, b>> : a \in BatchEntries, b \in BatchEntries}

IsVerified(a) == a.verified = TRUE

\* request.actions.filter(action => action.verified === true)
VerifiedOf(batch) == SelectSeq(batch, IsVerified)

\* faulty variant: a plain INSERT, the later entry of a key replaces the row
RECURSIVE InsertBatchReplacing(_, _)
InsertBatchReplacing(actions, batch) ==
    IF batch = <<>> THEN actions
    ELSE LET a == Head(batch)
         IN InsertBatchReplacing(
              (a.action_id :> [user_id |-> a.user_id, lbs |-> a.lbs,
                               verified |-> a.verified, verified_at |-> FALSE]) @@ actions,
              Tail(batch))

\* INSERT INTO user_actions(action_id, user_id, lbs, verified, ...) VALUES --bulk values--
\* ON CONFLICT (action_id) DO NOTHING: entries are taken in order, an entry whose
\* action_id is already there (committed, or inserted earlier by this statement) is skipped
RECURSIVE InsertBatch(_, _)
InsertBatch(actions, batch) ==
    IF batch = <<>> THEN actions
    ELSE LET a == Head(batch)
         IN InsertBatch(IF a.action_id \in DOMAIN actions
                        THEN actions
                        ELSE (a.action_id :> [user_id |-> a.user_id, lbs |-> a.lbs,
                                              verified |-> a.verified,
                                              verified_at |-> FALSE]) @@ actions,
                        Tail(batch))

\* affected_users: SELECT DISTINCT user_id FROM user_actions WHERE action_id IN (inserted)
AffectedUsers(actions, inserted) == {actions[k].user_id : k \in inserted}

\* WHERE verified = TRUE AND user_id = u
VerifiedActionsOf(actions, u) ==
    {k \in DOMAIN actions : actions[k].verified /\ actions[k].user_id = u}

\* UPDATE user_stats SET total_emissions_lbs = user_sums.sum_lbs, action_count =
\* user_sums.action_count FROM user_sums WHERE user_stats.user_id = user_sums.user_id
RecomputeUserStats(stats, actions, affected) ==
    [u \in DOMAIN stats |->
       IF u \in affected
       THEN [total_emissions_lbs |-> SumLbs(actions, VerifiedActionsOf(actions, u)),
             action_count |-> Cardinality(VerifiedActionsOf(actions, u))]
       ELSE stats[u]]

\* faulty variant: the recomputed sum is added to the stored total instead of replacing it
RecomputeGlobalAdded(g, actions) ==
    [g EXCEPT !.total_lbs_saved =
                @ + SumLbs(actions, {k \in DOMAIN actions : actions[k].verified})]

\* UPDATE global_emissions SET total_lbs_saved = (SELECT COALESCE(SUM(lbs), 0) FROM
\* user_actions WHERE verified = TRUE) WHERE id = 1
RecomputeGlobal(g, actions) ==
    [g EXCEPT !.total_lbs_saved =
                SumLbs(actions, {k \in DOMAIN actions : actions[k].verified})]

\* the BulkBackfillResponse built from the row the database function returned
BackfillResponse(inserted, skipped, globalTotal, affected) ==
    [success |-> TRUE, inserted_count |-> inserted, skipped_count |-> skipped,
     global_total_lbs |-> globalTotal, affected_users |-> affected]

\* catch branch of bulkBackfillActions
BackfillError ==
    [success |-> FALSE, inserted_count |-> 0, skipped_count |-> 0,
     global_total_lbs |-> 0, affected_users |-> 0]

\* bulkBackfillActions: no actions or no verified actions -> error response without a
\* database call; otherwise the verified entries are sent to bulk_backfill_actions
BulkBackfillActions(p, batch) ==
    /\ pc[p] = "idle"
    /\ calls < MaxCalls
    /\ calls' = calls + 1
    /\ txn' = [txn EXCEPT ![p] = NoTxn]
    /\ IF Len(VerifiedOf(batch)) = 0
       THEN /\ res' = [res EXCEPT ![p] = <<BackfillError>>]
            /\ UNCHANGED <<pc, req>>
       ELSE /\ pc' = [pc EXCEPT ![p] = "backfill"]
            /\ req' = [req EXCEPT ![p] = [p_actions |-> VerifiedOf(batch)]]
            /\ res' = [res EXCEPT ![p] = <<>>]
    /\ UNCHANGED <<tables, lock_global, sync, schema>>

\* BEGIN; INSERT ... ON CONFLICT DO NOTHING; UPDATE user_stats ...; UPDATE
\* global_emissions ... RETURNING total_lbs_saved; COMMIT; the response is returned
BackfillTransaction(p) ==
    /\ pc[p] = "backfill"
    /\ lock_global = 0
    /\ LET actions == InsertBatch(user_actions, req[p].p_actions)
           inserted == DOMAIN actions \ DOMAIN user_actions
           affected == AffectedUsers(actions, inserted)
           global == RecomputeGlobal(global_emissions, actions)
       IN /\ user_actions' = actions
          /\ user_stats' = RecomputeUserStats(user_stats, actions, affected)
          /\ global_emissions' = global
          /\ res' = [res EXCEPT ![p] =
                       <<BackfillResponse(Cardinality(inserted),
                                          Len(req[p].p_actions) - Cardinality(inserted),
                                          global.total_lbs_saved,
                                          Cardinality(affected))>>]
    /\ pc' = [pc EXCEPT ![p] = "idle"]
    /\ req' = [req EXCEPT ![p] = NoReq]
    /\ UNCHANGED <<emission_events, emissions_corrections, lock_global, txn, calls, sync, schema>>

\* session 1 submits single events, session 2 sends batches
NextBackfill ==
    \/ LogEmissionStep(1)
    \/ \E batch \in Batches : BulkBackfillActions(2, batch)
    \/ BackfillTransaction(2)

SpecBackfill == Init /\ [][NextBackfill]_vars

----------------------------------------------------------------------------
(***************************************************************************)
(* Failed calls and their retries: besides a failure that rolls the        *)
(* transaction back, the call can fail after COMMIT (the answer of the rpc *)
(* is lost or empty), and logEmission then answers success = false.        *)
(***************************************************************************)

\* if (error) throw error / 'No data returned from log_emission_atomic', after the
\* database has committed
ResponseLost(p) ==
    /\ pc[p] = "notify"
    /\ res' = [res EXCEPT ![p] = <<ErrorResponse(req[p].action_id)>>]
    /\ txn' = [txn EXCEPT ![p] = NoTxn]
    /\ pc' = [pc EXCEPT ![p] = "idle"]
    /\ req' = [req EXCEPT ![p] = NoReq]
    /\ UNCHANGED <<tables, lock_global, calls, sync, schema>>

NextRetry == \E p \in Procs : LogEmissionStep(p) \/ ResponseLost(p)

SpecRetry == Init /\ [][NextRetry]_vars

----------------------------------------------------------------------------
(***************************************************************************)
(* The submission entry points and their validation: logEmission,          *)
(* logAction and logActionFullSpec receive a request object of the caller; *)
(* a field can be missing and the quantity can be negative.                *)
(***************************************************************************)

\* a missing (undefined or empty) action_id or user_id
NoId == 0

\* lbs is <<>> when the field is undefined, else <<value>>; logged_at is a flag
Requests ==
    [action_id : Keys \cup {NoId}, user_id : Users \cup {NoId},
     lbs : {<<>>, <<-4000>>, <<4000>>}, verified : BOOLEAN, logged_at : BOOLEAN]

\* !request.action_id || !request.user_id || request.lbs === undefined
MissingFields(r) == r.action_id = NoId \/ r.user_id = NoId \/ r.lbs = <<>>

\* request.emissions_lbs < 0
IsNegative(r) == r.lbs # <<>> /\ r.lbs[1] < 0

\* the catch branch of an entry point: success false, nothing was sent to the database
Reject(p, r) ==
    /\ res' = [res EXCEPT ![p] = <<ErrorResponse(r.action_id)>>]
    /\ UNCHANGED <<pc, req, schema>>

\* supabase.rpc('log_emission_atomic', ...): BEGIN TRANSACTION
CallLogEmissionAtomic(p, r) ==
    /\ pc' = [pc EXCEPT ![p] = "check"]
    /\ req' = [req EXCEPT ![p] = [action_id |-> r.action_id, user_id |-> r.user_id,
                                  emissions_lbs |-> r.lbs[1]]]
    /\ res' = [res EXCEPT ![p] = <<>>]

\* logEmission: missing fields and a negative quantity are thrown before the rpc
LogEmissionRequest(p, r) ==
    /\ pc[p] = "idle"
    /\ calls < MaxCalls
    /\ calls' = calls + 1
    /\ txn' = [txn EXCEPT ![p] = NoTxn]
    /\ IF MissingFields(r) \/ IsNegative(r) THEN Reject(p, r) ELSE CallLogEmissionAtomic(p, r)
    /\ UNCHANGED <<tables, lock_global, sync, schema>>

\* logAction: only missing fields are thrown before the rpc
LogAction(p, r) ==
    /\ pc[p] = "idle"
    /\ calls < MaxCalls
    /\ calls' = calls + 1
    /\ txn' = [txn EXCEPT ![p] = NoTxn]
    /\ IF MissingFields(r) THEN Reject(p, r) ELSE CallLogEmissionAtomic(p, r)
    /\ UNCHANGED <<tables, lock_global, sync, schema>>

\* logActionFullSpec: missing fields (logged_at too), verified !== true and a negative
\* quantity are thrown before the rpc
LogActionFullSpec(p, r) ==
    /\ pc[p] = "idle"
    /\ calls < MaxCalls
    /\ calls' = calls + 1
    /\ txn' = [txn EXCEPT ![p] = NoTxn]
    /\ IF MissingFields(r) \/ ~r.logged_at \/ r.verified # TRUE \/ IsNegative(r)
       THEN Reject(p, r)
       ELSE CallLogEmissionAtomic(p, r)
    /\ UNCHANGED <<tables, lock_global, sync, schema>>

\* emissions_saved_lbs NUMERIC NOT NULL CHECK (emissions_saved_lbs >= 0): the INSERT of
\* a negative quantity raises, and the transaction can only roll back
InsertActionChecked(p) ==
    /\ req[p].emissions_lbs >= 0
    /\ InsertAction(p)

SubmitStep(p) ==
    \/ \E r \in Requests : LogEmissionRequest(p, r)
    \/ \E r \in Requests : LogAction(p, r)
    \/ \E r \in Requests : LogActionFullSpec(p, r)
    \/ CheckExisting(p)
    \/ LockGlobal(p)
    \/ InsertActionChecked(p)
    \/ UpsertUserStats(p)
    \/ UpdateGlobal(p)
    \/ InsertEvent(p)
    \/ Commit(p)
    \/ NotifyAndReturn(p)
    \/ Rollback(p)

\* one caller: the claim about validation involves no concurrency
NextSubmit == SubmitStep(1)

SpecSubmit == Init /\ [][NextSubmit]_vars

----------------------------------------------------------------------------
(***************************************************************************)
(* Leaderboard queries.  They read user_stats and write nothing; the       *)
(* answer of a query is kept in res.  The rows carry last_updated, the     *)
(* time of the user's most recent counted action.  A query without a       *)
(* deciding ORDER BY gets its rows in any order (ScanOrders).              *)
(***************************************************************************)

BoardUsers == {1, 2, 3}
BoardTotals == {0, 10200000, 10204000, 10400000}
BoardTimes == {1, 2}
Limits == {0, 1, 2, 3}

\* the user_stats tables the queries are run against
BoardStats ==
    [BoardUsers -> [total_emissions_lbs : BoardTotals, action_count : {1},
                    last_updated : BoardTimes]]

InitLeaderboard ==
    /\ user_stats \in BoardStats
    /\ user_actions = <<>>
    /\ global_emissions =
         [total_lbs_saved |-> SumStats(user_stats, DOMAIN user_stats), total_actions |-> 0]
    /\ emission_events = <<>>
    /\ emissions_corrections = <<>>
    /\ lock_global = 0
    /\ pc = [p \in Procs |-> "idle"]
    /\ req = [p \in Procs |-> NoReq]
    /\ txn = [p \in Procs |-> NoTxn]
    /\ res = [p \in Procs |-> <<>>]
    /\ calls = 0
    /\ sync = NoSync
    /\ globalState = NoGlobalState
    /\ listeners = <<>>
    /\ page = NoPage
    /\ verification = NoVerification
    /\ hook = NoHook
    /\ migration = LastMigration

\* WHERE us.total_emissions_lbs > 0 / .gt('total_emissions_lbs', 0)
PositiveUsers(stats) == {u \in DOMAIN stats : stats[u].total_emissions_lbs > 0}

\* the orders in which a scan can deliver the selected rows
ScanOrders(S) ==
    {s \in [1..Cardinality(S) -> S] : \A i, j \in 1..Cardinality(S) : s[i] = s[j] => i = j}

\* LIMIT limit_count / .limit(limit) / sorted.slice(0, limit)
Limit(seq, n) == SubSeq(seq, 1, IF n < Len(seq) THEN n ELSE Len(seq))

\* ORDER BY total_emissions_lbs DESC, last_verified_action_at DESC; the comparator of
\* getLeaderboardDirect (bLbs - aLbs, then later timestamp first)
TotalDescTimeDesc(stats, a, b) ==
    \/ stats[a].total_emissions_lbs > stats[b].total_emissions_lbs
    \/ /\ stats[a].total_emissions_lbs = stats[b].total_emissions_lbs
       /\ stats[a].last_updated > stats[b].last_updated

\* .order('total_emissions_lbs', {ascending: false}).order('last_update', {ascending: true})
TotalDescTimeAsc(stats, a, b) ==
    \/ stats[a].total_emissions_lbs > stats[b].total_emissions_lbs
    \/ /\ stats[a].total_emissions_lbs = stats[b].total_emissions_lbs
       /\ stats[a].last_updated < stats[b].last_updated

\* ORDER BY COALESCE(us.total_lbs, us.total_emissions_lbs, 0) DESC
TotalDesc(stats, a, b) == stats[a].total_emissions_lbs > stats[b].total_emissions_lbs

\* the ordering a query asks for, by name
Before(stats, ordering, a, b) ==
    CASE ordering = "total desc, time desc" -> TotalDescTimeDesc(stats, a, b)
      [] ordering = "total desc, time asc" -> TotalDescTimeAsc(stats, a, b)
      [] ordering = "total desc" -> TotalDesc(stats, a, b)

\* a sort that keeps the order of the rows it does not tell apart (Array.prototype.sort;
\* for ORDER BY the order of such rows is whatever the scan delivered)
StableSort(seq, stats, ordering) ==
    LET RECURSIVE Place(_, _)
        Place(sorted, i) ==
            IF i > Len(seq) THEN sorted
            ELSE LET x == seq[i]
                     later == {j \in 1..Len(sorted) : Before(stats, ordering, x, sorted[j])}
                     at == IF later = {} THEN Len(sorted) + 1
                           ELSE CHOOSE j \in later : \A k \in later : j <= k
                 IN Place(SubSeq(sorted, 1, at - 1) \o <<x>> \o SubSeq(sorted, at, Len(sorted)),
                          i + 1)
    IN Place(<<>>, 1)

\* faulty variant: the place in the list counted from 0
RankFromZero(index) == index - 1

\* ROW_NUMBER() OVER (ORDER BY ...) / rank: index + 1 (index counted from 0 in the
\* code, places are counted from 1 here)
Rank(index) == index

\* the total as an entry shows it: with 2 decimals (ROUND(.., 2), toFixed(2)) or as
\* stored (exact numeric as string)
Shown(decimals, x) == IF decimals = 2 THEN Round2(x) ELSE x

\* the entries returned for the users in their final order
Entries(stats, order, decimals) ==
    [i \in 1..Len(order) |->
       [rank |-> Rank(i), user_id |-> order[i],
        total_emissions_lbs |-> Shown(decimals, stats[order[i]].total_emissions_lbs),
        last_update_timestamp |-> stats[order[i]].last_updated]]

Answer(p, impl, limit, entries) ==
    /\ res' = [res EXCEPT ![p] = <<[impl |-> impl, limit |-> limit, entries |-> entries]>>]
    /\ UNCHANGED <<tables, lock_global, pc, req, txn, calls, sync, schema>>

\* faulty variant: the rows are not filtered
AllUsers(stats) == DOMAIN stats

\* the rows a leaderboard query selects
SelectedUsers(stats) == PositiveUsers(stats)

\* the selected rows, in the order the scan delivers them
Selected(stats, scan) ==
    LET Keep(u) == u \in SelectedUsers(stats) IN SelectSeq(scan, Keep)

\* the query common to the implementations: select, order, limit, rank
Query(limit, scan, ordering, decimals) ==
    Entries(user_stats, Limit(StableSort(Selected(user_stats, scan), user_stats, ordering), limit),
            decimals)

\* getLeaderboard -> get_leaderboard(limit_count); totals shown with 2 decimals
GetLeaderboard(p, limit, scan) ==
    /\ pc[p] = "idle"
    /\ Answer(p, "get_leaderboard", limit, Query(limit, scan, "total desc, time desc", 2))

\* getLeaderboardDirect: select, sort in the client, slice, rank = index + 1
GetLeaderboardDirect(p, limit, scan) ==
    /\ pc[p] = "idle"
    /\ Answer(p, "getLeaderboardDirect", limit,
              Query(limit, scan, "total desc, time desc", 2))

\* getLeaderboardFullSpec: ordered and limited by the query, rank = index + 1
GetLeaderboardFullSpec(p, limit, scan) ==
    /\ pc[p] = "idle"
    /\ Answer(p, "getLeaderboardFullSpec", limit,
              Query(limit, scan, "total desc, time asc", 6))

\* get_leaderboard_simple: ordered by total only, limited inside ranked_users
GetLeaderboardSimple(p, limit, scan) ==
    /\ pc[p] = "idle"
    /\ Answer(p, "get_leaderboard_simple", limit, Query(limit, scan, "total desc", 6))

\* the orders in which a scan can deliver the rows of user_stats
Scans == ScanOrders(BoardUsers)

NextLeaderboard ==
    \/ \E limit \in Limits, scan \in Scans : GetLeaderboard(1, limit, scan)
    \/ \E limit \in Limits, scan \in Scans : GetLeaderboardDirect(1, limit, scan)
    \/ \E limit \in Limits, scan \in Scans : GetLeaderboardFullSpec(1, limit, scan)
    \/ \E limit \in Limits, scan \in Scans : GetLeaderboardSimple(1, limit, scan)

SpecLeaderboard == InitLeaderboard /\ [][NextLeaderboard]_vars

----------------------------------------------------------------------------
(***************************************************************************)
(* Consistency checks run on their own: a submission, a check and a manual *)
(* change of the global row each run from start to end before the next     *)
(* begins.                                                                 *)
(***************************************************************************)

SubmissionAlone == sync.pc = "idle" /\ LogEmissionStep(1)

CheckAlone == pc[1] = "idle" /\ SyncStep

CorruptionAlone ==
    /\ sync.pc = "idle"
    /\ pc[1] = "idle"
    /\ \E v \in CorruptValues : CorruptGlobal(v)

NextCheck ==
    \/ SubmissionAlone
    \/ CheckAlone
    \/ CorruptionAlone

SpecCheck == Init /\ [][NextCheck]_vars

----------------------------------------------------------------------------
(***************************************************************************)
(* globalSync.ts: the in-memory aggregation with its listeners.  A         *)
(* listener is a callback of the caller: it returns or it throws.  One     *)
(* attempt of retry's fn runs without awaiting anything, hence one action; *)
(* between two attempts retry sleeps and other calls interleave.           *)
(***************************************************************************)
ListenerIds == {1, 2}
Attempts == 3
Statuses == {"verified", "needs_review"}
SavedLbs == {<<>>, <<4000>>}

\* what the promise of aggregateVerifiedAction settles with
Resolved(g) == [success |-> TRUE, totalLbsSaved |-> g.totalLbsSaved, actionCount |-> g.actionCount]
Thrown == [success |-> FALSE, totalLbsSaved |-> 0, actionCount |-> 0]

Payload(added, total) ==
    [event |-> "global_update", emissions_added_lbs |-> added, new_total_lbs |-> total]

ListenerIdsOf(ls) == {ls[i].id : i \in 1..Len(ls)}

\* position of the first listener that throws, Len + 1 when none does
FirstThrow(ls) ==
    IF \E i \in 1..Len(ls) : ls[i].throws
    THEN CHOOSE i \in 1..Len(ls) : ls[i].throws /\ \A j \in 1..(i - 1) : ~ls[j].throws
    ELSE Len(ls) + 1

\* listeners.forEach((l) => l(payload)): stops at the first exception
Broadcast(ls, payload) ==
    [i \in 1..Len(ls) |->
        IF i <= FirstThrow(ls)
        THEN [ls[i] EXCEPT !.received = Append(@, payload)]
        ELSE ls[i]]

SubscribeGlobal(l, throws) ==
    /\ l \notin ListenerIdsOf(listeners)
    /\ listeners' = Append(listeners, [id |-> l, throws |-> throws, received |-> <<>>])
    /\ UNCHANGED <<tables, lock_global, sessions, calls, sync, globalState, page, migration, verifier>>

\* the function subscribeGlobal returned
Unsubscribe(l) ==
    /\ l \in ListenerIdsOf(listeners)
    /\ listeners' = SelectSeq(listeners, LAMBDA x : x.id # l)
    /\ UNCHANGED <<tables, lock_global, sessions, calls, sync, globalState, page, migration, verifier>>

AggregateVerifiedAction(p, finalStatus, emissionsSavedLbs) ==
    /\ pc[p] = "idle"
    /\ calls < MaxCalls
    /\ calls' = calls + 1
    /\ IF finalStatus # "verified"
       THEN /\ res' = [res EXCEPT ![p] = <<Thrown>>]
            /\ UNCHANGED <<pc, req>>
       ELSE /\ pc' = [pc EXCEPT ![p] = "attempt"]
            /\ req' = [req EXCEPT ![p] =
                  [y |-> IF emissionsSavedLbs = <<>> THEN 0 ELSE emissionsSavedLbs[1],
                   i |-> 0]]
            /\ UNCHANGED res
    /\ UNCHANGED <<tables, lock_global, txn, sync, schema>>

\* one run of the function handed to retry
Attempt(p) ==
    /\ pc[p] = "attempt"
    /\ LET y == req[p].y
           newTotal == globalState.totalLbsSaved + y
           newCount == globalState.actionCount + 1
           thrown == FirstThrow(listeners) <= Len(listeners)
       IN  /\ globalState' = [totalLbsSaved |-> newTotal, actionCount |-> newCount]
           /\ listeners' = Broadcast(listeners, Payload(y, newTotal))
           /\ IF ~thrown
              THEN /\ res' = [res EXCEPT ![p] =
                         <<Resolved(globalState')>>]
                   /\ pc' = [pc EXCEPT ![p] = "idle"]
                   /\ req' = [req EXCEPT ![p] = NoReq]
              ELSE IF req[p].i < Attempts - 1
              THEN /\ req' = [req EXCEPT ![p].i = @ + 1]
                   /\ UNCHANGED <<pc, res>>
              ELSE /\ res' = [res EXCEPT ![p] = <<Thrown>>]
                   /\ pc' = [pc EXCEPT ![p] = "idle"]
                   /\ req' = [req EXCEPT ![p] = NoReq]
    /\ UNCHANGED <<tables, lock_global, txn, calls, sync, page, migration, verifier>>

NextGlobalSync ==
    \/ \E l \in ListenerIds, throws \in BOOLEAN : SubscribeGlobal(l, throws)
    \/ \E l \in ListenerIds : Unsubscribe(l)
    \/ \E p \in Procs, finalStatus \in Statuses, lbs \in SavedLbs :
          AggregateVerifiedAction(p, finalStatus, lbs)
    \/ \E p \in Procs : Attempt(p)

SpecGlobalSync == Init /\ [][NextGlobalSync]_vars

----------------------------------------------------------------------------
(***************************************************************************)
(* GlobalImpact.tsx: the page subscribed to the changes of user_actions.   *)
(* Realtime delivers a change after its commit, at least once.  A          *)
(* notification bumps newActionCount and arms a timer; the timer, like the *)
(* poll interval, starts loadGlobalStats, whose reads are answered at one  *)
(* moment and whose setState runs when its promises resolve: two loads in  *)
(* flight resolve in either order.                                         *)
(***************************************************************************)
MaxNotifications == 3
MaxLoads == 2

\* handler of postgres_changes INSERT on user_actions for the committed row k
OnInsert(k) ==
    /\ k \in DOMAIN user_actions
    /\ page.newActionCount < MaxNotifications
    /\ page' = [page EXCEPT !.newActionCount = @ + 1, !.timers = @ + 1]
    /\ UNCHANGED <<tables, lock_global, sessions, calls, sync, globalState, listeners, migration, verifier>>

\* getGlobalTotalEmissions inside Promise.all: the total with two decimals
StartLoad(loads) == Append(loads, Round2(global_emissions.total_lbs_saved))

\* setTimeout(() => loadGlobalStats(), 1000)
TimerFires ==
    /\ page.timers > 0
    /\ Len(page.loads) < MaxLoads
    /\ page' = [page EXCEPT !.timers = @ - 1, !.loads = StartLoad(@)]
    /\ UNCHANGED <<tables, lock_global, sessions, calls, sync, globalState, listeners, migration, verifier>>

\* loadGlobalStats() on mount and from setInterval(..., 5000)
Poll ==
    /\ Len(page.loads) < MaxLoads
    /\ page' = [page EXCEPT !.loads = StartLoad(@)]
    /\ UNCHANGED <<tables, lock_global, sessions, calls, sync, globalState, listeners, migration, verifier>>

\* the promises of load i resolve: setLeaderboardData({..., globalTotal})
LoadResolves(i) ==
    /\ i \in 1..Len(page.loads)
    /\ page' = [page EXCEPT
          !.globalTotal = <<page.loads[i]>>,
          !.loads = [j \in 1..(Len(@) - 1) |-> IF j < i THEN @[j] ELSE @[j + 1]]]
    /\ UNCHANGED <<tables, lock_global, sessions, calls, sync, globalState, listeners, migration, verifier>>

NextPage ==
    \/ LogEmissionStep(1)
    \/ \E k \in Keys : OnInsert(k)
    \/ TimerFires
    \/ Poll
    \/ \E i \in 1..MaxLoads : LoadResolves(i)

SpecPage == Init /\ [][NextPage]_vars

----------------------------------------------------------------------------
(***************************************************************************)
(* getGlobalOverviewApi: the combined query.  Promise.all starts the total, *)
(* the leaderboard, the active users and performSyncCheckApi together; the *)
(* last one runs sync_global_emissions_from_user_stats, statement by       *)
(* statement as in the consistency check, and the response is assembled    *)
(* when all four have resolved.                                            *)
(***************************************************************************)
OverviewLimit == 10

\* getLeaderboardApi(10) is answered and performSyncCheck() calls the rpc
GetGlobalOverviewApi(p, scan) ==
    /\ pc[p] = "idle"
    /\ sync.pc = "idle"
    /\ calls < MaxCalls
    /\ calls' = calls + 1
    /\ pc' = [pc EXCEPT ![p] = "overview"]
    /\ req' = [req EXCEPT ![p] =
          [leaderboard |-> Query(OverviewLimit, scan, "total desc, time desc", 2)]]
    /\ res' = [res EXCEPT ![p] = <<>>]
    /\ sync' = [NoSync EXCEPT !.pc = "sum", !.mode = "hourly",
                              !.performed_by = "getGlobalOverviewApi"]
    /\ UNCHANGED <<tables, lock_global, txn, schema>>

\* return {global_total, leaderboard, active_users, sync_status}
OverviewReturns(p) ==
    /\ pc[p] = "overview"
    /\ sync.pc = "idle"
    /\ res' = [res EXCEPT ![p] =
          <<[global_total |-> Round2(global_emissions.total_lbs_saved),
             leaderboard |-> req[p].leaderboard,
             active_users |-> Cardinality(PositiveUsers(user_stats)),
             sync_status |-> sync.result[1]]>>]
    /\ pc' = [pc EXCEPT ![p] = "idle"]
    /\ req' = [req EXCEPT ![p] = NoReq]
    /\ UNCHANGED <<tables, lock_global, txn, calls, sync, schema>>

\* the database the overview is asked about: rows written at one time
InitOverview ==
    /\ InitLeaderboard
    /\ \A u \in BoardUsers : user_stats[u].last_updated = 1

NextOverview ==
    \/ \E scan \in Scans : GetGlobalOverviewApi(1, scan)
    \/ ReadStatsSum
    \/ ReadGlobal
    \/ FixGlobal
    \/ OverviewReturns(1)
    \/ \E limit \in Limits, scan \in Scans : GetLeaderboard(1, limit, scan)
    \/ \E limit \in Limits, scan \in Scans : GetLeaderboardDirect(1, limit, scan)
    \/ CorruptionAlone

SpecOverview == InitOverview /\ [][NextOverview]_vars

----------------------------------------------------------------------------
(***************************************************************************)
(* Reading the totals: getGlobalTotalEmissions and                         *)
(* getGlobalTotalFromUserStats return a JavaScript number built with       *)
(* parseFloat and cut to two decimals with toFixed(2).                     *)
(***************************************************************************)

Total(fn, error, total) == [fn |-> fn, error |-> error, total |-> total]

\* (data || []).reduce((sum, entry) => sum + parseFloat(entry.total_emissions_lbs), 0),
\* then parseFloat(total.toFixed(2)); 0 when the query fails
TotalFromUserStats(error) == IF error THEN 0 ELSE Round2(UserStatsSum)

\* parseFloat(parseFloat(data.total_lbs_saved).toFixed(2)); the sum over user_stats
\* when the query fails
TotalEmissions(error, fallbackError) ==
    IF error THEN TotalFromUserStats(fallbackError)
    ELSE Round2(global_emissions.total_lbs_saved)

GetGlobalTotalEmissions(p, error, fallbackError) ==
    /\ pc[p] = "idle"
    /\ res' = [res EXCEPT ![p] =
          <<Total("getGlobalTotalEmissions", error, TotalEmissions(error, fallbackError))>>]
    /\ UNCHANGED <<tables, lock_global, pc, req, txn, calls, sync, schema>>

GetGlobalTotalFromUserStats(p, error) ==
    /\ pc[p] = "idle"
    /\ res' = [res EXCEPT ![p] =
          <<Total("getGlobalTotalFromUserStats", error, TotalFromUserStats(error))>>]
    /\ UNCHANGED <<tables, lock_global, pc, req, txn, calls, sync, schema>>

NextTotals ==
    \/ LogEmissionStep(1)
    \/ \E error, fallbackError \in BOOLEAN : GetGlobalTotalEmissions(2, error, fallbackError)
    \/ \E error \in BOOLEAN : GetGlobalTotalFromUserStats(2, error)

SpecTotals == Init /\ [][NextTotals]_vars

----------------------------------------------------------------------------
(***************************************************************************)
(* Chained triggers of supabase/migrations: an INSERT on user_actions      *)
(* fires sync_user_stats_on_action_insert, whose upsert of user_stats      *)
(* fires sync_global_emissions_on_stats_update.  migration is the last     *)
(* migration applied: 1 add_action_sync_triggers, 2 complete_app_setup,    *)
(* 3 fix_function_volatility.  CREATE OR REPLACE FUNCTION keeps the        *)
(* triggers that exist, DROP FUNCTION ... CASCADE removes them.  The       *)
(* column total_lbs of these migrations is the field total_emissions_lbs   *)
(* of the rows here.                                                       *)
(***************************************************************************)
FirstMigration == 1
TriggerQuantities == {10200000, 22500000}

AddActionSyncTriggers ==
    {[name |-> "trigger_sync_user_stats_on_action_insert", table |-> "user_actions",
      events |-> {"INSERT"}],
     [name |-> "trigger_sync_global_emissions_on_stats_update", table |-> "user_stats",
      events |-> {"UPDATE"}]}

CompleteAppSetupTriggers ==
    {[name |-> "trigger_sync_user_stats", table |-> "user_actions", events |-> {"INSERT"}],
     [name |-> "trigger_sync_global_emissions", table |-> "user_stats",
      events |-> {"INSERT", "UPDATE"}]}

\* the triggers installed once migration m has run
Installed(m) ==
    CASE m = 1 -> AddActionSyncTriggers
      [] m = 2 -> AddActionSyncTriggers \cup CompleteAppSetupTriggers
      [] m = 3 -> CompleteAppSetupTriggers

\* how many triggers an event on a table fires; all of one table run the same function
Firing(m, table, event) ==
    Cardinality({t \in Installed(m) : t.table = table /\ event \in t.events})

\* sync_global_emissions_on_stats_update, one run: v_diff := NEW.total_lbs -
\* COALESCE(OLD.total_lbs, 0); migration 1 adds v_diff to total_lbs_saved, the later
\* body also adds the difference of action_count, both only when v_diff != 0
SyncGlobalEmissionsOnStatsUpdate(m, g, old, new) ==
    LET v_diff == new.total_emissions_lbs - old.total_emissions_lbs
    IN  IF m = 1
        THEN [g EXCEPT !.total_lbs_saved = @ + v_diff]
        ELSE IF v_diff # 0
        THEN [total_lbs_saved |-> g.total_lbs_saved + v_diff,
              total_actions |-> g.total_actions + (new.action_count - old.action_count)]
        ELSE g

RECURSIVE RunStatsTriggers(_, _, _, _, _)
RunStatsTriggers(n, m, g, old, new) ==
    IF n = 0 THEN g
    ELSE RunStatsTriggers(n - 1, m, SyncGlobalEmissionsOnStatsUpdate(m, g, old, new), old, new)

\* sync_user_stats_on_action_insert, one run: INSERT INTO user_stats ... ON CONFLICT
\* (user_id) DO UPDATE; the row triggers of user_stats run inside the statement
SyncUserStatsOnActionInsert(m, db, u, v_lbs) ==
    LET exists == u \in DOMAIN db.stats
        old == IF exists THEN db.stats[u]
               ELSE [total_emissions_lbs |-> 0, action_count |-> 0]
        new == [total_emissions_lbs |-> old.total_emissions_lbs + v_lbs,
                action_count |-> old.action_count + 1]
        fired == Firing(m, "user_stats", IF exists THEN "UPDATE" ELSE "INSERT")
    IN  [stats |-> (u :> new) @@ db.stats,
         global |-> RunStatsTriggers(fired, m, db.global, old, new)]

RECURSIVE RunActionTriggers(_, _, _, _, _)
RunActionTriggers(n, m, db, u, v_lbs) ==
    IF n = 0 THEN db
    ELSE RunActionTriggers(n - 1, m, SyncUserStatsOnActionInsert(m, db, u, v_lbs), u, v_lbs)

\* INSERT INTO user_actions (user_id, custom_emissions_saved, ...) with its triggers
InsertUserAction(k, u, lbs) ==
    /\ ~ExistingAction(k)
    /\ user_actions' = (k :> [user_id |-> u, lbs |-> lbs, verified |-> FALSE,
                              verified_at |-> FALSE]) @@ user_actions
    /\ LET db == RunActionTriggers(Firing(migration, "user_actions", "INSERT"), migration,
                                   [stats |-> user_stats, global |-> global_emissions], u, lbs)
       IN  /\ user_stats' = db.stats
           /\ global_emissions' = db.global
    /\ UNCHANGED <<emission_events, emissions_corrections, lock_global, sessions, calls,
                   sync, clients, migration, verifier>>

\* 20251115053008_complete_app_setup.sql
CompleteAppSetup ==
    /\ migration = 1
    /\ migration' = 2
    /\ UNCHANGED <<tables, lock_global, sessions, calls, sync, clients, verifier>>

\* 20251117175551_20251117_fix_function_volatility.sql
FixFunctionVolatility ==
    /\ migration = 2
    /\ migration' = 3
    /\ UNCHANGED <<tables, lock_global, sessions, calls, sync, clients, verifier>>

\* the database once 20251115050327_20251115_add_action_sync_triggers.sql has run
InitTriggers ==
    /\ user_actions = <<>>
    /\ user_stats = <<>>
    /\ global_emissions = [total_lbs_saved |-> 0, total_actions |-> 0]
    /\ emission_events = <<>>
    /\ emissions_corrections = <<>>
    /\ lock_global = 0
    /\ pc = [p \in Procs |-> "idle"]
    /\ req = [p \in Procs |-> NoReq]
    /\ txn = [p \in Procs |-> NoTxn]
    /\ res = [p \in Procs |-> <<>>]
    /\ calls = 0
    /\ sync = NoSync
    /\ globalState = NoGlobalState
    /\ listeners = <<>>
    /\ page = NoPage
    /\ verification = NoVerification
    /\ hook = NoHook
    /\ migration = FirstMigration

NextTriggers ==
    \/ \E k \in Keys, u \in Users, lbs \in TriggerQuantities : InsertUserAction(k, u, lbs)
    \/ CompleteAppSetup
    \/ FixFunctionVolatility

SpecTriggers == InitTriggers /\ [][NextTriggers]_vars

----------------------------------------------------------------------------
(***************************************************************************)
(* The backfill transaction statement by statement, beside a live          *)
(* submission, under READ COMMITTED: a statement reads the rows committed  *)
(* when it starts (and the transaction's own writes), an UPDATE or a       *)
(* conflicting INSERT waits for the transaction that holds the row, and    *)
(* then writes the values it computed from its own snapshot.  The writes   *)
(* of the backfill stay in req until COMMIT.                               *)
(***************************************************************************)

\* rows another session wrote and has not committed yet
PendingActionOf(q) == IF txn[q].w_action = <<>> THEN {} ELSE {req[q].action_id}
PendingStatsOf(q) == IF txn[q].w_stats = <<>> THEN {} ELSE {req[q].user_id}

\* INSERT ... ON CONFLICT (action_id) DO NOTHING; waits while a submission holds an
\* uncommitted row with one of the keys
BackfillInsert(p) ==
    /\ pc[p] = "backfill"
    /\ \A q \in Procs \ {p}, i \in 1..Len(req[p].p_actions) :
          req[p].p_actions[i].action_id \notin PendingActionOf(q)
    /\ LET actions == InsertBatch(user_actions, req[p].p_actions)
           inserted == DOMAIN actions \ DOMAIN user_actions
       IN  req' = [req EXCEPT ![p] =
                     [p_actions |-> req[p].p_actions,
                      inserted |-> [k \in inserted |-> actions[k]],
                      affected |-> {}, user_sums |-> <<>>, stats |-> <<>>,
                      global |-> <<>>]]
    /\ pc' = [pc EXCEPT ![p] = "user_sums"]
    /\ UNCHANGED <<tables, lock_global, txn, res, calls, sync, schema>>

\* the rows of user_actions the transaction sees when a statement starts
Visible(p) == req[p].inserted @@ user_actions

\* WITH affected_users AS (...), user_sums AS (SELECT user_id, SUM(lbs), COUNT(*) ...),
\* joined with the user_stats rows the statement sees when it starts
BackfillUserSums(p) ==
    /\ pc[p] = "user_sums"
    /\ LET affected == AffectedUsers(Visible(p), DOMAIN req[p].inserted)
       IN  req' = [req EXCEPT ![p].affected = affected, ![p].user_sums =
                     [u \in affected \cap DOMAIN user_stats |->
                        [total_emissions_lbs |->
                            SumLbs(Visible(p), VerifiedActionsOf(Visible(p), u)),
                         action_count |-> Cardinality(VerifiedActionsOf(Visible(p), u))]]]
    /\ pc' = [pc EXCEPT ![p] = "update_stats"]
    /\ UNCHANGED <<tables, lock_global, txn, res, calls, sync, schema>>

\* UPDATE user_stats SET ... FROM user_sums WHERE user_stats.user_id = user_sums.user_id;
\* waits for the submission that holds one of the rows, then writes the sums it computed
BackfillUpdateStats(p) ==
    /\ pc[p] = "update_stats"
    /\ \A q \in Procs \ {p} : PendingStatsOf(q) \cap DOMAIN req[p].user_sums = {}
    /\ req' = [req EXCEPT ![p].stats =
                 [u \in DOMAIN req[p].user_sums |-> req[p].user_sums[u]]]
    /\ pc' = [pc EXCEPT ![p] = "global_sum"]
    /\ UNCHANGED <<tables, lock_global, txn, res, calls, sync, schema>>

\* (SELECT COALESCE(SUM(lbs), 0) FROM user_actions WHERE verified = TRUE), read when the
\* UPDATE of global_emissions starts
BackfillGlobalSum(p) ==
    /\ pc[p] = "global_sum"
    /\ req' = [req EXCEPT ![p].global =
                 <<RecomputeGlobal(global_emissions, Visible(p)).total_lbs_saved>>]
    /\ pc' = [pc EXCEPT ![p] = "update_global"]
    /\ UNCHANGED <<tables, lock_global, txn, res, calls, sync, schema>>

\* UPDATE global_emissions SET total_lbs_saved = (...) WHERE id = 1; waits for the row lock
BackfillUpdateGlobal(p) ==
    /\ pc[p] = "update_global"
    /\ lock_global = 0
    /\ lock_global' = p
    /\ pc' = [pc EXCEPT ![p] = "commit"]
    /\ UNCHANGED <<tables, req, txn, res, calls, sync, schema>>

\* COMMIT; the response is returned
BackfillCommit(p) ==
    /\ pc[p] = "commit"
    /\ user_actions' = Visible(p)
    /\ user_stats' = req[p].stats @@ user_stats
    /\ global_emissions' = [global_emissions EXCEPT !.total_lbs_saved = req[p].global[1]]
    /\ lock_global' = 0
    /\ res' = [res EXCEPT ![p] =
                 <<BackfillResponse(Cardinality(DOMAIN req[p].inserted),
                                    Len(req[p].p_actions) - Cardinality(DOMAIN req[p].inserted),
                                    req[p].global[1],
                                    Cardinality(req[p].affected))>>]
    /\ pc' = [pc EXCEPT ![p] = "idle"]
    /\ req' = [req EXCEPT ![p] = NoReq]
    /\ UNCHANGED <<emission_events, emissions_corrections, txn, calls, sync, schema>>

\* the submission waits for a row the backfill wrote: the same action_id at its INSERT,
\* the same user_stats row at its upsert
WaitsForBackfill(p, b) ==
    /\ pc[b] \in {"user_sums", "update_stats", "global_sum", "update_global", "commit"}
    /\ \/ pc[p] = "insert" /\ req[p].action_id \in DOMAIN req[b].inserted
       \/ pc[p] = "stats" /\ req[p].user_id \in DOMAIN req[b].stats

LiveSubmission == ~WaitsForBackfill(1, 2) /\ LogEmissionStep(1)

NextConcurrentBackfill ==
    \/ LiveSubmission
    \/ \E batch \in Batches : BulkBackfillActions(2, batch)
    \/ BackfillInsert(2)
    \/ BackfillUserSums(2)
    \/ BackfillUpdateStats(2)
    \/ BackfillGlobalSum(2)
    \/ BackfillUpdateGlobal(2)
    \/ BackfillCommit(2)

SpecConcurrentBackfill == Init /\ [][NextConcurrentBackfill]_vars

----------------------------------------------------------------------------
(***************************************************************************)
(* Verification: onVerify saves the action, verifyUserAction asks the      *)
(* provider under withTimeout and falls back when the provider fails or    *)
(* the timer fires first, and verifyAndSyncAction writes the outcome.      *)
(* Confidences are in hundredths; quantities are the action's miles.       *)
(***************************************************************************)

CyclingVsCarPerMile == 880000      \* 0.88 lbs per mile, in millionths of a lb
SmallQuantity == 5
SmallConfidence == 86
FlaggedConfidence == 50
MockVerifiedFrom == 85

DemoQuantities == {3, 5, 6}
Thresholds == {85, 86, 87}
FallbackModes == {"auto_verify_simple", "flag_complex", "undefined"}
Confidences == {50, 86, 90}

\* faulty variant: the fallback never verifies anything
FallbackAlwaysFlags(fallbackMode, quantity) ==
    [verified |-> FALSE, confidence |-> FlaggedConfidence, fallback |-> TRUE]

\* the fallback policy handed to withTimeout as onTimeout
Fallback(fallbackMode, quantity) ==
    IF fallbackMode = "auto_verify_simple"
    THEN LET small == quantity <= SmallQuantity
         IN [verified |-> small,
             confidence |-> IF small THEN SmallConfidence ELSE FlaggedConfidence,
             fallback |-> TRUE]
    ELSE [verified |-> FALSE, confidence |-> FlaggedConfidence, fallback |-> TRUE]

\* MockAIVerificationProvider.verify: verified = confidence >= 0.85
ProviderAnswer(confidence) ==
    [verified |-> confidence >= MockVerifiedFrom, confidence |-> confidence, fallback |-> FALSE]

\* finalStatus = confidence >= confidenceThreshold && verified ? 'verified' : 'needs_review'
FinalStatus(aiResponse, confidenceThreshold) ==
    IF aiResponse.confidence >= confidenceThreshold /\ aiResponse.verified
    THEN "verified"
    ELSE "needs_review"

\* faulty variant: the settled flag of withTimeout is never consulted
NeverSettled(v) == FALSE

\* if (settled) return
Settled(v) == v.settled

\* settled = true; (clearTimeout(t);) resolve(value)
Settle(v, timer, value) ==
    [v EXCEPT !.settled = TRUE, !.timer = timer, !.resolved = Append(v.resolved, value)]

\* verifyUserAction up to the await: provider.verify is called and withTimeout arms
\* the timer; the action was saved by saveUserAction with quantity * factor lbs
VerifyUserAction(k, quantity, confidenceThreshold, fallbackMode) ==
    /\ verification.pc = "idle"
    /\ ExistingAction(k)
    /\ ~user_actions[k].verified
    /\ user_actions[k].lbs = quantity * CyclingVsCarPerMile
    /\ verification' = [NoVerification EXCEPT
                          !.pc = "await", !.action_id = k, !.quantity = quantity,
                          !.confidenceThreshold = confidenceThreshold,
                          !.fallbackMode = fallbackMode,
                          !.promise = "pending", !.timer = "armed"]
    /\ UNCHANGED <<tables, lock_global, sessions, calls, sync, clients, migration, hook>>

\* the provider's promise is fulfilled: .then((v) => ...)
ProviderResolves(confidence) ==
    /\ verification.promise = "pending"
    /\ verification' =
         IF Settled(verification)
         THEN [verification EXCEPT !.promise = "fulfilled"]
         ELSE [Settle(verification, "cleared", ProviderAnswer(confidence))
                 EXCEPT !.promise = "fulfilled"]
    /\ UNCHANGED <<tables, lock_global, sessions, calls, sync, clients, migration, hook>>

\* the provider's promise is rejected: .catch(() => ... onTimeout().then(resolve))
ProviderRejects ==
    /\ verification.promise = "pending"
    /\ verification' =
         IF Settled(verification)
         THEN [verification EXCEPT !.promise = "rejected"]
         ELSE [Settle(verification, "cleared",
                      Fallback(verification.fallbackMode, verification.quantity))
                 EXCEPT !.promise = "rejected"]
    /\ UNCHANGED <<tables, lock_global, sessions, calls, sync, clients, migration, hook>>

\* setTimeout callback after timeoutMs: resolve(await onTimeout())
TimeoutFires ==
    /\ verification.timer = "armed"
    /\ verification' =
         IF Settled(verification)
         THEN [verification EXCEPT !.timer = "fired"]
         ELSE Settle(verification, "fired",
                     Fallback(verification.fallbackMode, verification.quantity))
    /\ UNCHANGED <<tables, lock_global, sessions, calls, sync, clients, migration, hook>>

\* the await continues with the first value the promise was resolved with, and
\* verifyUserAction returns {...aiResponse, finalStatus}
VerifyUserActionReturns ==
    /\ verification.pc = "await"
    /\ verification.resolved # <<>>
    /\ LET aiResponse == verification.resolved[1]
       IN verification' =
            [verification EXCEPT
               !.pc = "returned",
               !.result = <<[verified |-> aiResponse.verified,
                             confidence |-> aiResponse.confidence,
                             fallback |-> aiResponse.fallback,
                             finalStatus |->
                               FinalStatus(aiResponse, verification.confidenceThreshold)]>>]
    /\ UNCHANGED <<tables, lock_global, sessions, calls, sync, clients, migration, hook>>

\* onVerify step 3: verifyAndSyncAction(actionId, ctx, res) with the returned result;
\* global_sync_trigger_function runs inside the UPDATE
OnVerifySync ==
    /\ verification.pc = "returned"
    /\ LET k == verification.action_id
           old == user_actions[k]
           new == IF verification.result[1].finalStatus # "verified"
                  THEN [old EXCEPT !.verified = FALSE]
                  ELSE [old EXCEPT !.verified = TRUE, !.verified_at = TRUE]
       IN /\ user_actions' = [user_actions EXCEPT ![k] = new]
          /\ IF GlobalSyncTriggerFires(old, new)
             THEN /\ user_stats' = UpsertStats(user_stats, new.user_id, new.lbs)
                  /\ global_emissions' = AddToGlobal(global_emissions, new.lbs)
             ELSE UNCHANGED <<user_stats, global_emissions>>
    /\ verification' = [verification EXCEPT !.pc = "synced"]
    /\ UNCHANGED <<emission_events, emissions_corrections, lock_global, sessions, calls,
                   sync, clients, migration, hook>>

\* onVerify step 1: saveUserAction(ctx) with emissionsSavedLbs = quantity * factor
OnVerifySave(k, u, quantity) ==
    /\ verification.pc = "idle"
    /\ SaveUserAction(k, u, quantity * CyclingVsCarPerMile)

\* the in-memory aggregation is handed the same context and result
AggregateResult(p) ==
    /\ verification.pc = "synced"
    /\ AggregateVerifiedAction(p, verification.result[1].finalStatus,
                               <<user_actions[verification.action_id].lbs>>)

\* onVerify, one click after another: save, verify, write the outcome
NextVerification ==
    \/ \E k \in Keys, u \in Users, q \in DemoQuantities : OnVerifySave(k, u, q)
    \/ \E k \in Keys, q \in DemoQuantities, t \in Thresholds, m \in FallbackModes :
         VerifyUserAction(k, q, t, m)
    \/ \E c \in Confidences : ProviderResolves(c)
    \/ ProviderRejects
    \/ TimeoutFires
    \/ VerifyUserActionReturns
    \/ OnVerifySync
    \/ AggregateResult(1)
    \/ Attempt(1)

SpecVerification == Init /\ [][NextVerification]_vars

\* the timer set by withTimeout fires unless it is cleared, and the awaiting call
\* continues once its promise is resolved
SpecVerificationFair ==
    /\ SpecVerification
    /\ WF_vars(TimeoutFires)
    /\ WF_vars(VerifyUserActionReturns)

----------------------------------------------------------------------------
(***************************************************************************)
(* The manual consistency check when a read fails: the two getters log     *)
(* the error and return 0 (or the sum over user_stats for the global       *)
(* row), and performSyncCheckManual goes on with the value it was given.   *)
(***************************************************************************)

\* getGlobalTotalFromUserStats() inside performSyncCheckManual, the query failing
ReadStatsSumFails ==
    /\ sync.pc = "sum" /\ sync.mode = "manual"
    /\ sync' = [sync EXCEPT !.pc = "global",
                            !.stats_sum = TotalFromUserStats(TRUE),
                            !.read_failed = TRUE]
    /\ UNCHANGED <<tables, lock_global, sessions, calls, schema>>

\* getGlobalTotalEmissions() inside performSyncCheckManual, the query failing: the
\* getter answers with getGlobalTotalFromUserStats(), which may fail as well
ReadGlobalFails(fallbackError) ==
    /\ sync.pc = "global" /\ sync.mode = "manual"
    /\ sync' = [sync EXCEPT !.pc = "fix",
                            !.global_val = TotalEmissions(TRUE, fallbackError),
                            !.read_failed = TRUE]
    /\ UNCHANGED <<tables, lock_global, sessions, calls, schema>>

FailingRead ==
    /\ pc[1] = "idle"
    /\ \/ ReadStatsSumFails
       \/ \E fallbackError \in BOOLEAN : ReadGlobalFails(fallbackError)

\* submissions and checks one after the other, the reads of a check failing or not
NextFailingCheck ==
    \/ SubmissionAlone
    \/ CheckAlone
    \/ FailingRead

SpecFailingCheck == Init /\ [][NextFailingCheck]_vars

----------------------------------------------------------------------------
(***************************************************************************)
(* useVerification: run may be called again while earlier runs still wait  *)
(* for verifyUserAction; every run carries the runId it was given.         *)
(***************************************************************************)

MaxRuns == 5        \* calls of run in one behaviour

RunIds == 1..MaxRuns

\* faulty variant: no run is ever taken for stale
NeverStale(runId) == FALSE

\* if (runId !== lastRunId.current) return
IsStale(runId) == runId # hook.lastRunId

\* run up to the await: runId = ++lastRunId.current; setIsVerifying(true);
\* setError(null); setResult(null)
Run ==
    /\ hook.lastRunId < MaxRuns
    /\ hook' = [lastRunId |-> hook.lastRunId + 1, isVerifying |-> TRUE,
                result |-> <<>>, error |-> <<>>,
                runs |-> hook.runs \cup {hook.lastRunId + 1}]
    /\ UNCHANGED <<tables, lock_global, sessions, calls, sync, clients, migration,
                   verification>>

\* finally { if (runId === lastRunId.current) setIsVerifying(false) }
Finally(h, runId) ==
    [h EXCEPT !.isVerifying = IF IsStale(runId) THEN h.isVerifying ELSE FALSE,
              !.runs = h.runs \ {runId}]

\* verifyUserAction resolved for run runId: setResult(res) unless stale; the result
\* object is told apart from those of other runs by the run it was computed for
RunResolves(runId, finalStatus) ==
    /\ runId \in hook.runs
    /\ hook' = Finally(IF IsStale(runId)
                       THEN hook
                       ELSE [hook EXCEPT !.result = <<[runId |-> runId,
                                                       finalStatus |-> finalStatus]>>],
                       runId)
    /\ UNCHANGED <<tables, lock_global, sessions, calls, sync, clients, migration,
                   verification>>

\* verifyUserAction rejected for run runId: setError(message) unless stale
RunRejects(runId) ==
    /\ runId \in hook.runs
    /\ hook' = Finally(IF IsStale(runId)
                       THEN hook
                       ELSE [hook EXCEPT !.error = <<runId>>],
                       runId)
    /\ UNCHANGED <<tables, lock_global, sessions, calls, sync, clients, migration,
                   verification>>

NextHook ==
    \/ Run
    \/ \E runId \in RunIds, finalStatus \in FinalStatuses : RunResolves(runId, finalStatus)
    \/ \E runId \in RunIds : RunRejects(runId)

SpecHook == Init /\ [][NextHook]_vars

----------------------------------------------------------------------------
(***************************************************************************)
(* getActiveUsersCount: the database function get_active_users_count, and  *)
(* the direct query used when the rpc returns an error.                    *)
(***************************************************************************)

\* SELECT COUNT(DISTINCT user_id) FROM user_actions WHERE verified = TRUE
ActiveUsersCount == Cardinality({user_actions[k].user_id : k \in VerifiedActions})

\* from('user_actions').select('user_id', {count: 'exact', head: true})
\* .eq('verified', true): the number of rows the filter selects; 0 on error
ActiveUsersCountDirect(directError) ==
    IF directError THEN 0 ELSE Cardinality(VerifiedActions)

ActiveUsers(error, directError, count) ==
    [fn |-> "getActiveUsersCount", error |-> error, directError |-> directError,
     count |-> count]

\* getActiveUsersCount: data || 0 from the rpc, the direct query when the rpc fails
GetActiveUsersCount(p, error, directError) ==
    /\ pc[p] = "idle"
    /\ res' = [res EXCEPT ![p] =
          <<ActiveUsers(error, directError,
                        IF error THEN ActiveUsersCountDirect(directError)
                        ELSE ActiveUsersCount)>>]
    /\ UNCHANGED <<tables, lock_global, pc, req, txn, calls, sync, schema>>

NextActiveUsers ==
    \/ LogEmissionStep(1)
    \/ \E error, directError \in BOOLEAN : GetActiveUsersCount(2, error, directError)

SpecActiveUsers == Init /\ [][NextActiveUsers]_vars

----------------------------------------------------------------------------
(***************************************************************************)
(* Claims about atomic, idempotent ingestion (specification Spec).         *)
(***************************************************************************)

\* every committed event has been counted once in its user's row and once in the global row
CountedOnce ==
    /\ global_emissions.total_actions = Cardinality(DOMAIN user_actions)
    /\ \A u \in Users :
         IF u \in DOMAIN user_stats
         THEN user_stats[u].action_count = Cardinality(ActionsOf(u))
         ELSE ActionsOf(u) = {}

\* C2: submitting an idempotency key that is already committed (a re-submission in
\* sequence) returns at the idempotency check with is_duplicate = true and changes no
\* table; every committed key stays counted exactly once in the user and global rows.
C2_ResubmissionChangesNothing ==
    /\ []CountedOnce
    /\ [][\A p \in Procs :
            (pc[p] = "check" /\ pc'[p] # "check" /\ ExistingAction(req[p].action_id))
              => /\ tables' = tables
                 /\ pc'[p] = "idle"
                 /\ res'[p] # <<>>
                 /\ res'[p][1].success => res'[p][1].is_duplicate]_vars

\* C2 witness: one session alone has submitted the same key MaxCalls times in sequence
\* and the last call returned is_duplicate = true.
C2_Witness ==
    \E p \in Procs :
        /\ calls = MaxCalls
        /\ pc[p] = "idle"
        /\ res[p] # <<>> /\ res[p][1].success /\ res[p][1].is_duplicate
        /\ \A q \in Procs \ {p} : pc[q] = "idle" /\ res[q] = <<>>
        /\ Cardinality(DOMAIN user_actions) = 1

\* C3: whatever the interleaving of concurrent submissions, the global total is the
\* exact sum of the quantities of the committed events, and every submission that was
\* acknowledged as a new event is among them: no update is lost.
C3_NoLostUpdate ==
    /\ global_emissions.total_lbs_saved = SumLbs(user_actions, DOMAIN user_actions)
    /\ \A p \in Procs :
         (res[p] # <<>> /\ res[p][1].success /\ ~res[p][1].is_duplicate)
           => res[p][1].action_id \in DOMAIN user_actions

\* C3 witness: two overlapping submissions of distinct events for the same user have
\* both committed before either call returned.
C3_Witness ==
    /\ pc[1] = "notify" /\ pc[2] = "notify"
    /\ req[1].action_id # req[2].action_id
    /\ req[1].user_id = req[2].user_id
    /\ global_emissions.total_lbs_saved = req[1].emissions_lbs + req[2].emissions_lbs

\* a session that committed key k as a new event (before or after its call returned)
CommittedAsNew(p, k) ==
    \/ pc[p] = "notify" /\ req[p].action_id = k
    \/ res[p] # <<>> /\ res[p][1].success /\ ~res[p][1].is_duplicate /\ res[p][1].action_id = k

C5_AllOrNothing ==
    [][LET new == DOMAIN user_actions' \ DOMAIN user_actions
       IN IF new = {}
          THEN /\ user_actions' = user_actions
               /\ user_stats' = user_stats
               /\ global_emissions' = global_emissions
          ELSE \E k \in new :
                 LET r == user_actions'[k]
                     old == IF r.user_id \in DOMAIN user_stats
                            THEN user_stats[r.user_id]
                            ELSE [total_emissions_lbs |-> 0, action_count |-> 0]
                 IN /\ new = {k}
                    /\ global_emissions'.total_lbs_saved = global_emissions.total_lbs_saved + r.lbs
                    /\ global_emissions'.total_actions = global_emissions.total_actions + 1
                    /\ DOMAIN user_stats' = DOMAIN user_stats \cup {r.user_id}
                    /\ user_stats'[r.user_id].total_emissions_lbs = old.total_emissions_lbs + r.lbs
                    /\ user_stats'[r.user_id].action_count = old.action_count + 1
                    /\ \A u \in DOMAIN user_stats \ {r.user_id} : user_stats'[u] = user_stats[u]]_vars

\* C5 witness: a transaction has staged all its writes, none of them is visible yet,
\* and another session's transaction for a key that is still uncommitted has failed.
C5_Witness ==
    \E p \in Procs, q \in Procs :
        /\ p # q
        /\ pc[p] = "commit"
        /\ ~ExistingAction(req[p].action_id)
        /\ pc[q] = "idle" /\ res[q] # <<>> /\ ~res[q][1].success
        /\ ~ExistingAction(res[q][1].action_id)

----------------------------------------------------------------------------
(***************************************************************************)
(* Claims about consistency checks running beside submissions (SpecSync).  *)
(***************************************************************************)

\* no call is in progress: every session and the consistency check are idle
Quiescent ==
    /\ \A p \in Procs : pc[p] = "idle"
    /\ sync.pc = "idle"
    /\ lock_global = 0

\* C1: in every quiescent state, whatever submissions and consistency checks ran and
\* however they interleaved, the global total equals the sum of the user totals.
C1_GlobalEqualsSumOfUsers ==
    Quiescent => global_emissions.total_lbs_saved = UserStatsSum

\* C9: every consistency-check run that finishes having found the sum of user totals
\* different from the global total appends one record to the corrections audit trail.
C9_MismatchWritesCorrection ==
    [][(sync.pc = "fix" /\ sync'.pc = "idle" /\ ~sync'.result[1].was_in_sync)
         => Len(emissions_corrections') = Len(emissions_corrections) + 1]_vars

\* C10: once a consistency check that corrected the global total and the submissions
\* that ran beside it have all finished, the global total equals the sum of user totals.
C10_CorrectionBesideSubmissions ==
    (Quiescent /\ sync.result # <<>> /\ sync.result[1].fixed)
      => global_emissions.total_lbs_saved = UserStatsSum

----------------------------------------------------------------------------
(***************************************************************************)
(* Claims about the verification and raw logging paths (SpecVerify,        *)
(* SpecRecord) and about reconciliation with corrections (SpecReconcile).  *)
(***************************************************************************)

\* the actions of user u that have been verified at some time
EverVerified(u) == {k \in ActionsOf(u) : user_actions[k].verified_at}

UserTotal(u) == IF u \in DOMAIN user_stats THEN user_stats[u].total_emissions_lbs ELSE 0

\* C6: in every quiescent state each user's total is the exact sum of the quantities of
\* that user's committed (verified) events.
C6_UserTotalIsSumOfEvents ==
    Quiescent => \A u \in Users : UserTotal(u) = SumLbs(user_actions, EverVerified(u))

\* C7: a step in which no action becomes verified (an action is recorded pending,
\* marked needs review, or inserted raw) changes no user total and no global total.
C7_OnlyVerifiedContribute ==
    [][(\A k \in DOMAIN user_actions' :
          user_actions'[k].verified => (ExistingAction(k) /\ user_actions[k].verified))
         => UNCHANGED <<user_stats, global_emissions>>]_vars

----------------------------------------------------------------------------
(***************************************************************************)
(* Claims about the snapshot the consistency check reads (SpecSync).       *)
(***************************************************************************)

\* C11: a consistency check that finishes while the committed global total equals the
\* committed sum of the user totals (the only other activity being atomic submissions)
\* reports no mismatch, writes no correction record and does not rewrite the global row.
C11_ConsistentSnapshot ==
    [][(/\ sync.pc = "fix" /\ sync'.pc = "idle"
        /\ global_emissions.total_lbs_saved = UserStatsSum)
         => /\ sync'.result[1].was_in_sync
            /\ UNCHANGED <<global_emissions, emissions_corrections>>]_vars

----------------------------------------------------------------------------
(***************************************************************************)
(* Claims about bulk backfill                                              *)
(***************************************************************************)

\* the users named by the entries of a batch
UsersOfBatch(batch) == {batch[i].user_id : i \in 1..Len(batch)}

\* C12: when a backfill commits, every user named in the batch has a user total equal to
\* the sum of that user's verified actions, and the global total equals the sum of the
\* user totals.
C12_BackfillRecomputes ==
    [][(pc[2] = "backfill" /\ pc'[2] = "idle")
        => /\ \A u \in UsersOfBatch(req[2].p_actions) :
                /\ u \in DOMAIN user_stats'
                /\ user_stats'[u].total_emissions_lbs =
                     SumLbs(user_actions', VerifiedActionsOf(user_actions', u))
           /\ global_emissions'.total_lbs_saved = SumStats(user_stats', DOMAIN user_stats')]_vars

\* the keys named by the entries of a batch
KeysOfBatch(batch) == {batch[i].action_id : i \in 1..Len(batch)}

\* C13: running the backfill transaction again with the batch it has just committed
\* leaves user_actions, every user total and the global total as the first run left them;
\* and a backfill whose keys are all committed already changes none of them.
C13_BackfillIdempotent ==
    [][(pc[2] = "backfill" /\ pc'[2] = "idle")
        => LET batch == req[2].p_actions
               again == InsertBatch(user_actions', batch)
               affected == AffectedUsers(again, DOMAIN again \ DOMAIN user_actions')
           IN /\ again = user_actions'
              /\ RecomputeUserStats(user_stats', again, affected) = user_stats'
              /\ RecomputeGlobal(global_emissions', again) = global_emissions'
              /\ KeysOfBatch(batch) \subseteq DOMAIN user_actions
                   => UNCHANGED <<user_actions, user_stats, global_emissions>>]_vars

\* a backfill has returned that found every one of its two entries committed already,
\* after an earlier run had committed both keys for a user with a user total
C13_Witness ==
    /\ pc[2] = "idle"
    /\ res[2] # <<>>
    /\ res[2][1].success
    /\ res[2][1].inserted_count = 0
    /\ res[2][1].skipped_count = 2
    /\ \E u \in DOMAIN user_stats : Cardinality(VerifiedActionsOf(user_actions, u)) >= 2
    /\ global_emissions.total_lbs_saved > 0

\* the positions of a batch whose key is new to the store and does not occur earlier in
\* the batch
FirstNewPositions(actions, batch) ==
    {i \in 1..Len(batch) :
        /\ batch[i].action_id \notin DOMAIN actions
        /\ \A j \in 1..(i - 1) : batch[j].action_id # batch[i].action_id}

----------------------------------------------------------------------------
(***************************************************************************)
(* Claims about the answer to a re-submission and about retries            *)
(***************************************************************************)

\* session p holds the answer to the submission that committed key k
OriginalAnswer(p, k) ==
    /\ pc[p] = "idle"
    /\ res[p] # <<>>
    /\ res[p][1].action_id = k
    /\ res[p][1].success
    /\ ~res[p][1].is_duplicate

\* C14: when a call repeating a committed submission (same key, user and quantity) is
\* answered, the answer says is_duplicate and carries the user total and global total
\* that the original submission was answered with.
C14_DuplicateReturnsOriginalTotals ==
    [][\A p \in Procs, o \in Procs :
         (/\ pc[p] = "check" /\ pc'[p] = "idle"
          /\ res'[p] # <<>> /\ res'[p][1].success
          /\ ExistingAction(req[p].action_id)
          /\ user_actions[req[p].action_id].user_id = req[p].user_id
          /\ user_actions[req[p].action_id].lbs = req[p].emissions_lbs
          /\ o # p
          /\ OriginalAnswer(o, req[p].action_id))
         => /\ res'[p][1].is_duplicate
            /\ res'[p][1].user_total_lbs = res[o][1].user_total_lbs
            /\ res'[p][1].global_total_lbs = res[o][1].global_total_lbs]_vars

\* C15: whatever attempts fail (rolled back, or committed with the answer lost) and
\* however often the call is repeated, every committed key is counted exactly once in
\* its user's total and in the global total, nothing else is counted, and a call that
\* is answered with success leaves its key committed.
C15_RetryIsSafe ==
    /\ [](/\ CountedOnce
          /\ global_emissions.total_lbs_saved = SumLbs(user_actions, DOMAIN user_actions)
          /\ \A u \in DOMAIN user_stats :
               user_stats[u].total_emissions_lbs = SumLbs(user_actions, ActionsOf(u)))
    /\ [][\A p \in Procs :
            (pc[p] # "idle" /\ pc'[p] = "idle" /\ res'[p][1].success)
              => /\ req[p].action_id \in DOMAIN user_actions'
                 /\ user_actions'[req[p].action_id].user_id \in DOMAIN user_stats']_vars

\* only two calls were made, both for key 1 of user 1: the first committed but was
\* answered with a failure, its retry was answered as a duplicate, and the quantity is
\* in the totals once
C15_Witness ==
    /\ calls = 2
    /\ pc = <<"idle", "idle">>
    /\ res[1] = <<ErrorResponse(1)>>
    /\ res[2] # <<>> /\ res[2][1].success /\ res[2][1].is_duplicate /\ res[2][1].action_id = 1
    /\ DOMAIN user_actions = {1}
    /\ global_emissions.total_lbs_saved = user_actions[1].lbs
    /\ global_emissions.total_actions = 1

----------------------------------------------------------------------------
(***************************************************************************)
(* Claims about validation                                                 *)
(***************************************************************************)

\* C16: on every entry point a request with a negative quantity or without action_id,
\* user_id or quantity is answered with a failure at once: the database function is
\* never running with such a request, and no table changes in the step that answers it.
C16_MalformedRejected ==
    /\ [](\A p \in Procs :
            pc[p] # "idle" => /\ req[p].action_id # NoId
                              /\ req[p].user_id # NoId
                              /\ req[p].emissions_lbs >= 0)
    /\ [][(calls' = calls + 1 /\ pc' = pc)
            => /\ \E p \in Procs : res'[p] # <<>> /\ ~res'[p][1].success
               /\ UNCHANGED tables]_vars

----------------------------------------------------------------------------
(***************************************************************************)
(* Claims about the leaderboard                                            *)
(***************************************************************************)

\* the answer of the last leaderboard query
Board == res[1][1].entries

\* C17: every leaderboard answer lists a larger total before a smaller one and, among
\* equal totals, a later last-action time before an earlier one; and a query repeated on
\* the same user_stats by the same implementation with the same limit gives the same list.
C17_TotalOrder ==
    /\ [](res[1] # <<>> =>
            \A i, j \in 1..Len(Board) :
               i < j => ~TotalDescTimeDesc(user_stats, Board[j].user_id, Board[i].user_id))
    /\ [][(/\ res[1] # <<>> /\ res'[1] # <<>>
           /\ res'[1][1].impl = res[1][1].impl
           /\ res'[1][1].limit = res[1][1].limit)
          => res'[1][1].entries = res[1][1].entries]_vars

\* the users of a leaderboard answer
BoardUserIds == {Board[i].user_id : i \in 1..Len(Board)}

----------------------------------------------------------------------------
(***************************************************************************)
(* Claims about consistency checks that run on their own                   *)
(***************************************************************************)

\* what a check of the given kind finds when it runs now, undisturbed
WouldBeInSync(mode) ==
    IF mode = "manual"
    THEN Abs(Round2(UserStatsSum) - Round2(global_emissions.total_lbs_saved)) < Cent
    ELSE UserStatsSum = global_emissions.total_lbs_saved

\* C21: a consistency check run while the sum of the user totals equals the global total
\* reports in sync, fixed = false and discrepancy 0 and changes no table (no correction
\* record, no aggregate); and a check that has just corrected the global total leaves
\* the tables such that the same check run again finds them in sync.
C21_InSyncIsNoOp ==
    /\ [][(/\ sync.pc = "fix" /\ sync'.pc = "idle"
           /\ UserStatsSum = global_emissions.total_lbs_saved)
          => /\ sync'.result[1].was_in_sync
             /\ ~sync'.result[1].fixed
             /\ sync'.result[1].discrepancy = 0
             /\ UNCHANGED tables]_vars
    /\ [][(sync.pc = "fix" /\ sync'.pc = "idle" /\ sync'.result[1].fixed)
          => /\ WouldBeInSync(sync.mode)'
             /\ UNCHANGED <<user_actions, user_stats, emission_events,
                            emissions_corrections>>]_vars

\* a check has just ended that found a positive sum of user totals equal to the global
\* total
C21_Witness ==
    /\ sync.pc = "idle"
    /\ sync.result # <<>>
    /\ sync.result[1].was_in_sync
    /\ ~sync.result[1].fixed
    /\ UserStatsSum > 0
    /\ UserStatsSum = global_emissions.total_lbs_saved

\* C22: a consistency check run while the sum of the user totals differs from the global
\* total, by however little, reports a mismatch.
C22_ExactEquality ==
    [][(/\ sync.pc = "fix" /\ sync'.pc = "idle"
        /\ UserStatsSum # global_emissions.total_lbs_saved)
       => ~sync'.result[1].was_in_sync]_vars

----------------------------------------------------------------------------
(***************************************************************************)
(* Claims about notifications and subscribers                              *)
(***************************************************************************)
ReceivedBy(ls, l) == (CHOOSE i \in 1..Len(ls) : ls[i].id = l)

\* C23: every commit is followed by a notification to each current
\* subscriber carrying the total that resulted from that commit, and a step
\* that commits nothing (a rejected submission, a subscription) delivers no
\* notification to anyone.
C23_CommitNotifiesEverySubscriber ==
    /\ [][(globalState'.actionCount # globalState.actionCount)
          => \A l \in ListenerIdsOf(listeners) :
                /\ l \in ListenerIdsOf(listeners')
                /\ LET before == listeners[ReceivedBy(listeners, l)].received
                       after == listeners'[ReceivedBy(listeners', l)].received
                   IN  /\ Len(after) = Len(before) + 1
                       /\ after[Len(after)].new_total_lbs = globalState'.totalLbsSaved]_vars
    /\ [][(globalState'.actionCount = globalState.actionCount)
          => \A l \in ListenerIdsOf(listeners) \cap ListenerIdsOf(listeners') :
                listeners'[ReceivedBy(listeners', l)].received
                    = listeners[ReceivedBy(listeners, l)].received]_vars

\* the totals the page shows are those of the database, to the cent
ShowsLatest == page.globalTotal = <<Round2(global_emissions.total_lbs_saved)>>

\* C24: under duplicated or reordered delivery the page never goes back to
\* an older total, never counts one event twice, and once every delivery
\* has been handled it shows the latest total.
C24_LastWriteWins ==
    /\ [][(page.globalTotal # <<>>)
          => page'.globalTotal[1] >= page.globalTotal[1]]_vars
    /\ [](page.newActionCount <= Cardinality(DOMAIN user_actions))
    /\ []((/\ page.newActionCount > 0 /\ page.timers = 0 /\ page.loads = <<>>
           /\ pc[1] = "idle")
          => ShowsLatest)

----------------------------------------------------------------------------
(***************************************************************************)
(* Claims about the immutability of events and the purity of reads         *)
(***************************************************************************)
\* C25: an action committed as verified stays in user_actions with the
\* quantity, the owner and the verification flag it was committed with.
C25_EventsImmutable ==
    [][\A k \in DOMAIN user_actions :
          user_actions[k].verified
          => /\ k \in DOMAIN user_actions'
             /\ user_actions'[k].lbs = user_actions[k].lbs
             /\ user_actions'[k].user_id = user_actions[k].user_id
             /\ user_actions'[k].verified = user_actions[k].verified]_vars

\* a step of a leaderboard query or of the combined overview query
ServingStep == pc[1] = "overview" \/ pc'[1] = "overview" \/ res' # res

\* C26: no step of a leaderboard query, asked for directly or inside the
\* combined overview query, changes user_stats or global_emissions.
C26_ServingIsReadOnly ==
    [][ServingStep => UNCHANGED <<user_stats, global_emissions>>]_vars

----------------------------------------------------------------------------
(***************************************************************************)
(* Claims about numeric precision                                          *)
(***************************************************************************)
\* C27: a submitted quantity is recorded and added to the totals exactly,
\* and every read that succeeds hands the stored total on unchanged.
C27_ExactDecimals ==
    /\ [](\A k \in DOMAIN user_actions : user_actions[k].lbs \in Quantities)
    /\ [](global_emissions.total_lbs_saved = SumLbs(user_actions, DOMAIN user_actions))
    /\ [][(res'[2] # res[2] /\ ~res'[2][1].error)
          => res'[2][1].total =
                IF res'[2][1].fn = "getGlobalTotalEmissions"
                THEN global_emissions.total_lbs_saved ELSE UserStatsSum]_vars

----------------------------------------------------------------------------
(***************************************************************************)
(* Claims about the trigger-maintained totals                              *)
(***************************************************************************)
\* C28: with the chained triggers the global total equals the sum of the
\* user totals after every insert, the insert that creates a user's row
\* included.
C28_FirstActionReachesGlobal == global_emissions.total_lbs_saved = UserStatsSum

----------------------------------------------------------------------------
(***************************************************************************)
(* Claims about backfill beside live submissions                           *)
(***************************************************************************)
\* C29: once a backfill and the submissions that ran beside it have
\* finished, every user total is the sum of that user's committed verified
\* actions and the global total is the sum of the user totals (stated for
\* the states where every user with a verified action has a user_stats row).
C29_ConcurrentBackfillLosesNothing ==
    (/\ \A p \in Procs : pc[p] = "idle"
     /\ \A k \in VerifiedActions : user_actions[k].user_id \in DOMAIN user_stats)
    => /\ \A u \in DOMAIN user_stats :
             user_stats[u].total_emissions_lbs
                = SumLbs(user_actions, VerifiedActionsOf(user_actions, u))
       /\ global_emissions.total_lbs_saved = UserStatsSum

\* C30: every user who owns a committed verified action has a user_stats
\* row, whether the action came through a submission or through a backfill.
C30_AggregateExists ==
    \A k \in VerifiedActions : user_actions[k].user_id \in DOMAIN user_stats

----------------------------------------------------------------------------
(***************************************************************************)
(* Claims about the totals a submission is answered with                   *)
(***************************************************************************)

\* session p holds the answer to a submission it committed as a new event
AnsweredAsNew(p) ==
    /\ res[p] # <<>>
    /\ res[p][1].success
    /\ ~res[p][1].is_duplicate

\* the answer of session p carries the sum of the committed set S, its own event included
RunningSum(p, S) ==
    /\ res[p][1].action_id \in S
    /\ res[p][1].global_total_lbs = SumLbs(user_actions, S)

\* C31: under concurrent submissions a non-duplicate response carries the global total
\* as it stood immediately after its own commit: the commit makes the global total the
\* previous total plus the submission's quantity, that value is what the call returns,
\* the returned totals of distinct submissions are the running sums of one serial
\* order of the committed events, and when every committed event has been answered
\* the largest returned total is the final total.
C31_ResponseCarriesTotalAfterOwnCommit ==
    /\ [][\A p \in Procs :
            (pc[p] = "commit" /\ pc'[p] = "notify")
              => /\ global_emissions'.total_lbs_saved
                      = global_emissions.total_lbs_saved + req[p].emissions_lbs
                 /\ txn'[p].w_global[1].total_lbs_saved
                      = global_emissions'.total_lbs_saved]_vars
    /\ [][\A p \in Procs :
            pc[p] = "notify"
              => /\ pc'[p] = "notify" => txn'[p] = txn[p]
                 /\ pc'[p] = "idle"
                      => /\ AnsweredAsNew(p)'
                         /\ res'[p][1].global_total_lbs
                              = txn[p].w_global[1].total_lbs_saved]_vars
    /\ [](\A p \in Procs :
            AnsweredAsNew(p) => \E S \in SUBSET DOMAIN user_actions : RunningSum(p, S))
    /\ [](\A p \in Procs, o \in Procs :
            (p # o /\ AnsweredAsNew(p) /\ AnsweredAsNew(o))
              => \E S \in SUBSET DOMAIN user_actions, T \in SUBSET DOMAIN user_actions :
                   /\ RunningSum(p, S) /\ RunningSum(o, T)
                   /\ S # T
                   /\ S \subseteq T \/ T \subseteq S)
    /\ []((/\ \A p \in Procs : pc[p] = "idle"
           /\ \A k \in DOMAIN user_actions :
                \E p \in Procs : AnsweredAsNew(p) /\ res[p][1].action_id = k
           /\ user_actions # <<>>)
            => \E p \in Procs :
                 /\ AnsweredAsNew(p)
                 /\ res[p][1].global_total_lbs = global_emissions.total_lbs_saved
                 /\ \A o \in Procs :
                      AnsweredAsNew(o)
                        => res[o][1].global_total_lbs <= res[p][1].global_total_lbs)

\* C31 witness: the two sessions hold the answers to two distinct new events; the
\* first answer carries the first quantity alone, the second the final total.
C31_Witness ==
    /\ AnsweredAsNew(1) /\ AnsweredAsNew(2)
    /\ pc[1] = "idle" /\ pc[2] = "idle"
    /\ res[1][1].action_id # res[2][1].action_id
    /\ res[1][1].global_total_lbs < res[2][1].global_total_lbs
    /\ res[2][1].global_total_lbs = global_emissions.total_lbs_saved
    /\ res[1][1].global_total_lbs = user_actions[res[1][1].action_id].lbs

----------------------------------------------------------------------------
(***************************************************************************)
(* Claims about the verifier, its timeout and the hook                     *)
(***************************************************************************)

\* the verifier failed or timed out before it answered
VerifierFailedOrTimedOut ==
    \/ verification.timer = "fired"
    \/ verification.timer = "cleared" /\ verification.promise = "rejected"

\* C32: when the verifier fails or times out, the returned result is the fallback and
\* its final status depends on the configuration alone: it is 'verified' exactly when
\* the policy is 'auto_verify_simple', the quantity is at most 5 and the confidence
\* threshold is at most 0.86, and 'needs_review' otherwise; a 'needs_review' outcome
\* changes no aggregate (user_stats, global_emissions, the in-memory totals) and the
\* action stays unverified.
C32_FallbackDecidesStatus ==
    /\ []((verification.result # <<>> /\ VerifierFailedOrTimedOut)
            => /\ verification.result[1].fallback
               /\ verification.result[1].finalStatus = "verified"
                    <=> /\ verification.fallbackMode = "auto_verify_simple"
                        /\ verification.quantity <= 5
                        /\ verification.confidenceThreshold <= 86)
    /\ []((verification.result # <<>> /\ verification.result[1].finalStatus # "verified")
            => verification.result[1].finalStatus = "needs_review")
    /\ []((verification.result # <<>> /\ verification.result[1].fallback
           /\ verification.result[1].finalStatus = "needs_review")
            => /\ ~user_actions[verification.action_id].verified
               /\ user_stats = <<>>
               /\ global_emissions.total_lbs_saved = 0
               /\ global_emissions.total_actions = 0
               /\ globalState = NoGlobalState)

\* C32 witness: the timer fired before the provider answered a 5-mile action under
\* 'auto_verify_simple' with threshold 0.87; the fallback's 0.86 is below the
\* threshold, the outcome 'needs_review' has been written and offered to the
\* in-memory aggregation, and the provider's answer came afterwards.
C32_Witness ==
    /\ verification.pc = "synced"
    /\ verification.timer = "fired"
    /\ verification.promise = "fulfilled"
    /\ verification.fallbackMode = "auto_verify_simple"
    /\ verification.quantity = 5
    /\ verification.confidenceThreshold = 87
    /\ verification.result[1].finalStatus = "needs_review"
    /\ res[1] = <<Thrown>>

\* C33: over its lifetime each action is added to its user's total and to the global
\* total at most once, whatever verification outcomes are written to it: no user
\* total exceeds the sum of that user's action quantities, the global total does not
\* exceed the sum of all action quantities, and no more contributions are counted
\* than there are actions.
C33_ContributesAtMostOnce ==
    /\ \A u \in DOMAIN user_stats :
         /\ user_stats[u].total_emissions_lbs <= SumLbs(user_actions, ActionsOf(u))
         /\ user_stats[u].action_count <= Cardinality(ActionsOf(u))
    /\ global_emissions.total_lbs_saved <= SumLbs(user_actions, DOMAIN user_actions)
    /\ global_emissions.total_actions <= Cardinality(DOMAIN user_actions)

\* C34: a call of aggregateVerifiedAction for a verified action adds the action's
\* quantity to the in-memory total and 1 to the action count exactly once: its first
\* attempt adds them, and an attempt made by the retry loop after a listener threw
\* adds nothing more.
C34_CallAddsQuantityOnce ==
    [][\A p \in Procs :
         (pc[p] = "attempt" /\ (pc'[p] # pc[p] \/ req'[p] # req[p]))
           => IF req[p].i = 0
              THEN /\ globalState'.totalLbsSaved = globalState.totalLbsSaved + req[p].y
                   /\ globalState'.actionCount = globalState.actionCount + 1
              ELSE globalState' = globalState]_vars

\* C35: a sync check in which the read of the user aggregates or of the global row
\* failed ends without writing global_emissions and without reporting fixed.
C35_FailedReadFixesNothing ==
    [][(sync.pc = "fix" /\ sync'.pc = "idle" /\ sync.read_failed)
         => /\ global_emissions' = global_emissions
            /\ ~sync'.result[1].fixed]_vars

\* C36: when runs of the hook overlap, a step that sets the hook's result or error is
\* the completion of the most recently started run and stores that run's outcome; the
\* completion of a superseded run changes neither result, error nor isVerifying; and
\* isVerifying is true exactly while the most recently started run has not finished.
C36_LatestRunWins ==
    /\ [][(hook'.result # hook.result /\ hook'.result # <<>>)
            => /\ hook.runs \ hook'.runs = {hook.lastRunId}
               /\ hook'.result[1].runId = hook.lastRunId]_vars
    /\ [][(hook'.error # hook.error /\ hook'.error # <<>>)
            => /\ hook.runs \ hook'.runs = {hook.lastRunId}
               /\ hook'.error[1] = hook.lastRunId]_vars
    /\ [][\A runId \in RunIds :
            (runId \in hook.runs /\ runId \notin hook'.runs /\ runId # hook.lastRunId)
              => /\ hook'.result = hook.result
                 /\ hook'.error = hook.error
                 /\ hook'.isVerifying = hook.isVerifying]_vars
    /\ [](hook.isVerifying <=> hook.lastRunId \in hook.runs)

\* C36 witness: three runs overlapped; the latest one has finished and its result is
\* shown, isVerifying is false, and the first run is still waiting.
C36_Witness ==
    /\ hook.lastRunId = 3
    /\ hook.runs = {1}
    /\ hook.result # <<>>
    /\ hook.result[1].runId = 3
    /\ ~hook.isVerifying

\* C37: every call of verifyUserAction returns, with one result that never changes
\* afterwards: withTimeout resolves its promise exactly once, with the verifier's
\* answer when that arrived before the timer fired and with the fallback otherwise,
\* and an answer or failure of the verifier that arrives after the timeout changes
\* neither the resolved value nor the returned result.
C37_OneResultAlways ==
    /\ (verification.pc = "await") ~> (verification.pc = "returned")
    /\ [](Len(verification.resolved) <= 1)
    /\ [](verification.pc \in {"returned", "synced"} <=> verification.result # <<>>)
    /\ [][verification.result # <<>> => verification'.result = verification.result]_vars
    /\ [][verification.resolved # <<>>
            => verification'.resolved = verification.resolved]_vars
    /\ [](verification.result # <<>>
            => /\ verification.result[1].fallback <=> VerifierFailedOrTimedOut
               /\ ~verification.result[1].fallback
                    => /\ verification.timer = "cleared"
                       /\ verification.promise = "fulfilled"
                       /\ verification.result[1].verified
                            = (verification.result[1].confidence >= 85))

\* C37 witness: the timer fired first and the call returned the fallback; the
\* verifier's answer arrived after the return and the result is still the fallback.
C37_Witness ==
    /\ verification.pc = "returned"
    /\ verification.timer = "fired"
    /\ verification.promise = "fulfilled"
    /\ Len(verification.resolved) = 1
    /\ verification.result[1].fallback
    /\ verification.result[1].finalStatus = "verified"

\* C38: getActiveUsersCount answers with the number of distinct users that have at
\* least one verified action, when the database function answers and when the
\* direct query answers in its place.
C38_CountsDistinctUsers ==
    [][(res'[2] # res[2] /\ ~(res'[2][1].error /\ res'[2][1].directError))
         => res'[2][1].count
              = Cardinality({u \in Users :
                               \E k \in DOMAIN user_actions :
                                 user_actions[k].verified /\ user_actions[k].user_id = u})]_vars

====
